---- MODULE Spec2Model ----
(***************************************************************************)
(* A model of the reconciliation platform's core: the batch job processor  *)
(* (backend/batch_processor.py), the extraction client                     *)
(* (backend/llm_client.py) and the in-memory cache                         *)
(* (backend/cache_manager.py).  Each component has a specification of its  *)
(* own over the shared variable tuple; a component's actions leave the     *)
(* other components' variables unchanged.                                  *)
(***************************************************************************)
EXTENDS Integers, Sequences, FiniteSets, TLC

(***************************************************************************)
(* Bounds of the model.                                                    *)
(***************************************************************************)
\* number of jobs ever submitted
MaxJobs == 3
\* number of worker threads ever spawned (start() after stop() spawns more)
MaxThreads == 2

(***************************************************************************)
(* Program constants of the batch processor.                               *)
(***************************************************************************)
\* JobPriority
LOW == 1
NORMAL == 2
HIGH == 3
URGENT == 4
\* BatchJob.max_retries
max_retries == 3
\* BatchProcessor.max_workers
max_workers == 1

Jobs == 1..MaxJobs
Threads == 1..MaxThreads
\* the priorities jobs are submitted with
Priorities == {LOW, HIGH}
\* job types: one with a registered processor, one without
JobTypes == {"reconcile", "unknown"}
\* BatchProcessor.job_processors after create_document_processors
job_processors == {"extract_contract", "extract_invoice", "reconcile"}
\* the value of exec_order in the runs it is not kept for
Void == <<0>>
\* Python's None
None == "None"
\* str(e) of the exceptions a handler raises: an empty and a non-empty message
Messages == {"", "boom"}
\* the dependency lists a batch job is constructed with: the job created just
\* before it; for the first job that is id 0, which is never submitted
DependencyLists(j) == {{j - 1}}

VARIABLES
    \* ---- batch processor ----
    jobs,            \* the BatchJob objects constructed so far, by id
    queue,           \* JobQueue.queue: ids of the jobs in the PriorityQueue
    active_jobs,     \* JobQueue.active_jobs (its keys)
    completed_jobs,  \* JobQueue.completed_jobs (its keys)
    running,         \* BatchProcessor.running
    worker_threads,  \* len(BatchProcessor.worker_threads)
    pc,              \* where each worker thread is in _worker_loop
    hold,            \* the job a worker thread holds (0: none)
    invocations,     \* history: how often each job's handler was invoked
    last_outcome,    \* history: how each job's last attempt ended
    exec_order       \* history: the jobs in the order of their first dispatch,
                     \* kept while one worker drains a queue that was filled
                     \* before its first dequeue (Void otherwise)

VARIABLES
    \* ---- extraction client (the synchronous path) ----
    client,          \* LLMClient.client is set (set_api_key succeeded)
    database,        \* LLMClient.database is set
    cache,           \* LLMClient.cache, the legacy dictionary
    db_cache,        \* the rows of llm_cache the database still returns
    llm_pc,          \* where the caller is in extract_contract/extract_invoice
    llm_kind,        \* "contract" or "invoice": which of the two is running
    llm_text,        \* its argument
    llm_model,       \* the model of the call() in progress
    llm_result,      \* the dictionary returned
    llm_success,     \* the success flag returned
    requests,        \* history: the external requests of this extraction
    llm_expect,      \* history: what the last successful extraction of the
                     \* same text returned, if still cached when this one began
    prior,           \* history: the last successful result per (kind, text),
                     \* forgotten when a cache entry is cleared or expires
    tiers,           \* history: what the small model's call() of this
                     \* extraction returned with success, whether it came
                     \* from a cache, and the call()s made of the large model
    cache_manager,   \* LLMClient.cache_manager: the value stored per key
    ad_out,          \* what the last call_async returned, and from where
    ad_first         \* history: per key, what the last call_async that was
                     \* answered by the model service returned

batch_vars == <<jobs, queue, active_jobs, completed_jobs, running,
                worker_threads, pc, hold, invocations, last_outcome,
                exec_order>>

VARIABLES
    \* ---- MemoryCache ----
    data,            \* MemoryCache.data: the CacheEntry of each key
    order,           \* the keys of MemoryCache.data in the dict's order
    current_memory,  \* MemoryCache.current_memory
    now,             \* the clock datetime.now() reads
    evict_log        \* history: the entries the last operation evicted

llm_vars == <<client, database, cache, db_cache, llm_pc, llm_kind, llm_text,
              llm_model, llm_result, llm_success, requests, llm_expect, prior,
              tiers, cache_manager, ad_out, ad_first>>

VARIABLES
    \* ---- MultiLayerCache ----
    l2,              \* PersistentCache: the row of cache_entries of each key
    ml_pc,           \* where each caller of the MultiLayerCache is
    ml_local,        \* each caller's key, value and ttl (arguments, L2 entry)
    ml_get,          \* history: each caller's get, and what it had to return
    last_set,        \* history: the last completed set of each key
    latest,          \* history: what the last completed write left in a key
    ml_clean         \* history: no other write overlapped the caller's write

VARIABLES
    \* ---- LLMClient.call_async, the rate limiter, LLMConnectionPool ----
    request_times,      \* LLMClient.request_times
    available_clients,  \* LLMConnectionPool.available_clients
    held,               \* the client each caller took from the pool, 0: none
    as_pc,              \* where each caller is
    as_out,             \* how each caller's last call ended
    slept_at,           \* when each caller's asyncio.sleep(1) began
    clock,              \* the clock time.time() reads
    sent,               \* history: the time of every external request
    as_hist             \* history: what each caller's call_async did so far

VARIABLES
    \* ---- ReconciliationEngine ----
    processed_invoices, \* ReconciliationEngine.processed_invoices
    rc_contract,        \* the contract of the last reconcile()
    rc_invoice,         \* the invoice of the last reconcile()
    rc_result,          \* what the last reconcile() returned or raised
    rc_passed,          \* history: the (vendor, invoice_no, total) of the
                        \* reconciles that ran the duplicate rule
    rc_prior,           \* history: the last invoice's triple was in
                        \* rc_passed when reconcile() was called
    reconciles,         \* history: the number of reconcile() calls
    rc_workers          \* the workers that share the engine: where each is
                        \* in its reconcile(), its invoice, and its flags

VARIABLES
    \* ---- MultiLayerCache with failing layers ----
    ml_out,          \* the last operation, the error met, what it returned
    rp_last,         \* history: the last MultiLayerCache.set of each key
    rp_get           \* history: the last MultiLayerCache.get, what the last
                     \* set of its key was, and what it returned

mem_vars == <<data, order, current_memory, now, evict_log>>

fault_vars == <<ml_out, rp_last, rp_get>>

recon_vars == <<processed_invoices, rc_contract, rc_invoice, rc_result,
                rc_passed, rc_prior, reconciles,
               rc_workers>>

async_vars == <<request_times, available_clients, held, as_pc, as_out,
                slept_at, clock, sent, as_hist>>

mlc_vars == <<l2, ml_pc, ml_local, ml_get, last_set, latest, ml_clean>>

vars == <<batch_vars, llm_vars, mem_vars, mlc_vars, async_vars, recon_vars,
          fault_vars>>

\* what the actions of each component leave alone
BatchFrame == UNCHANGED <<llm_vars, mem_vars, mlc_vars, async_vars, recon_vars, fault_vars>>
LLMFrame == UNCHANGED <<batch_vars, mem_vars, mlc_vars, async_vars, recon_vars, fault_vars>>
MemFrame == UNCHANGED <<batch_vars, llm_vars, mlc_vars, async_vars, recon_vars, fault_vars>>
MLCFrame == UNCHANGED <<batch_vars, llm_vars, async_vars, recon_vars, fault_vars>>
AsyncFrame == UNCHANGED <<batch_vars, llm_vars, mem_vars, mlc_vars, recon_vars, fault_vars>>
ReconFrame == UNCHANGED <<batch_vars, llm_vars, mem_vars, mlc_vars, async_vars, fault_vars>>
FaultFrame == UNCHANGED <<batch_vars, llm_vars, async_vars, recon_vars, ml_pc, ml_local, ml_get, last_set, latest, ml_clean, rp_last, rp_get>>
ReadPathFrame == UNCHANGED <<batch_vars, llm_vars, async_vars, recon_vars, ml_pc, ml_local, ml_get, last_set, latest, ml_clean, ml_out>>

(***************************************************************************)
(* Batch processor: JobQueue                                               *)
(***************************************************************************)

\* a priority value that is not inverted: the heap would serve LOW first
priority_value_not_inverted(p) == p

\* enqueue: priority_value = 5 - job.priority.value
priority_value(p) == 5 - p

\* the tuple order of (priority_value, created_at) the PriorityQueue sorts by
QueueBefore(a, b) ==
    \/ priority_value(jobs[a].priority) < priority_value(jobs[b].priority)
    \/ /\ priority_value(jobs[a].priority) = priority_value(jobs[b].priority)
       /\ jobs[a].created_at <= jobs[b].created_at

\* queue.get(): the least entry of the heap
QueueGet(q) == CHOOSE j \in q : \A k \in q : QueueBefore(j, k)

\* JobQueue.get_job_status: the status, or None when the id is in neither map
get_job_status(job_id) ==
    IF job_id \in active_jobs THEN jobs[job_id].status
    ELSE IF job_id \in completed_jobs THEN jobs[job_id].status
    ELSE None

\* Python truthiness of complete_job's error argument
Truthy(error) == error # None /\ error # ""

\* a complete_job that does not pop the job from active_jobs
complete_job_keeps_active(job_id, result, error) ==
    IF job_id \in active_jobs
    THEN /\ active_jobs' = active_jobs
         /\ completed_jobs' = completed_jobs \cup {job_id}
         /\ jobs' = [jobs EXCEPT ![job_id] =
                IF Truthy(error)
                THEN [@ EXCEPT !.status = "failed", !.error = error]
                ELSE [@ EXCEPT !.status = "completed", !.result = result]]
    ELSE UNCHANGED <<active_jobs, completed_jobs, jobs>>

\* JobQueue.complete_job(job_id, result, error)
complete_job(job_id, result, error) ==
    IF job_id \in active_jobs
    THEN /\ active_jobs' = active_jobs \ {job_id}
         /\ completed_jobs' = completed_jobs \cup {job_id}
         /\ jobs' = [jobs EXCEPT ![job_id] =
                IF Truthy(error)
                THEN [@ EXCEPT !.status = "failed", !.error = error]
                ELSE [@ EXCEPT !.status = "completed", !.result = result]]
    ELSE UNCHANGED <<active_jobs, completed_jobs, jobs>>

(***************************************************************************)
(* Batch processor: submission, start and stop                             *)
(***************************************************************************)

NewJob(j, t, p, deps) ==
    [job_type |-> t, priority |-> p, status |-> "pending", created_at |-> j,
     result |-> None, error |-> None, retry_count |-> 0,
     max_retries |-> max_retries, dependencies |-> deps]

NextJobId == Cardinality(DOMAIN jobs) + 1

Enqueue(j, t, p, deps) ==
    /\ j = NextJobId
    /\ j <= MaxJobs
    /\ jobs' = jobs @@ (j :> NewJob(j, t, p, deps))
    /\ queue' = queue \cup {j}
    /\ UNCHANGED <<active_jobs, completed_jobs, running, worker_threads, pc,
                   hold, invocations, last_outcome, exec_order>>
    /\ BatchFrame

\* BatchProcessor.submit_job(job_type, input_data, priority)
SubmitJob ==
    \E t \in JobTypes, p \in Priorities : Enqueue(NextJobId, t, p, {})

\* BatchProcessor.submit_batch: the enqueue of one job of the batch, which
\* the caller constructed with dependencies
SubmitBatch ==
    \E p \in Priorities, deps \in DependencyLists(NextJobId) :
        Enqueue(NextJobId, "reconcile", p, deps)

\* BatchProcessor.start()
Start ==
    /\ ~running
    /\ worker_threads + max_workers <= MaxThreads
    /\ running' = TRUE
    /\ worker_threads' = worker_threads + max_workers
    /\ pc' = [t \in Threads |->
                IF t > worker_threads /\ t <= worker_threads + max_workers
                THEN "loop" ELSE pc[t]]
    /\ exec_order' = IF worker_threads > 0 THEN Void ELSE exec_order
    /\ UNCHANGED <<jobs, queue, active_jobs, completed_jobs, hold,
                   invocations, last_outcome>>
    /\ BatchFrame

\* BatchProcessor.stop(timeout): the joins wait for at most timeout seconds and
\* return whether or not the threads have ended
Stop ==
    /\ running
    /\ running' = FALSE
    /\ UNCHANGED <<jobs, queue, active_jobs, completed_jobs, worker_threads,
                   pc, hold, invocations, last_outcome, exec_order>>
    /\ BatchFrame

(***************************************************************************)
(* Batch processor: the worker loop                                        *)
(***************************************************************************)

\* while self.running
LoopCheck(t) ==
    /\ pc[t] = "loop"
    /\ pc' = [pc EXCEPT ![t] = IF running THEN "dequeue" ELSE "exited"]
    /\ UNCHANGED <<jobs, queue, active_jobs, completed_jobs, running,
                   worker_threads, hold, invocations, last_outcome,
                   exec_order>>
    /\ BatchFrame

\* JobQueue.dequeue: queue.get returned a job, which is put in active_jobs
Dequeue(t) ==
    /\ pc[t] = "dequeue"
    /\ queue # {}
    /\ hold' = [hold EXCEPT ![t] = QueueGet(queue)]
    /\ queue' = queue \ {QueueGet(queue)}
    /\ active_jobs' = active_jobs \cup {QueueGet(queue)}
    /\ pc' = [pc EXCEPT ![t] = "check"]
    /\ exec_order' = IF NextJobId <= MaxJobs THEN Void ELSE exec_order
    /\ UNCHANGED <<jobs, completed_jobs, running, worker_threads,
                   invocations, last_outcome>>
    /\ BatchFrame

\* JobQueue.dequeue: queue.get timed out on the empty queue
DequeueEmpty(t) ==
    /\ pc[t] = "dequeue"
    /\ queue = {}
    /\ pc' = [pc EXCEPT ![t] = "loop"]
    /\ UNCHANGED <<jobs, queue, active_jobs, completed_jobs, running,
                   worker_threads, hold, invocations, last_outcome,
                   exec_order>>
    /\ BatchFrame

\* a dependency check that lets a dependency pass when its id is not found
check_dependencies_unknown_ok(j) ==
    \A dep_id \in jobs[j].dependencies :
        get_job_status(dep_id) \in {"completed", None}

\* BatchProcessor._check_dependencies
check_dependencies(j) ==
    \A dep_id \in jobs[j].dependencies : get_job_status(dep_id) = "completed"

\* _worker_loop: dependencies not met, the job is enqueued again
Requeue(t) ==
    /\ pc[t] = "check"
    /\ ~check_dependencies(hold[t])
    /\ queue' = queue \cup {hold[t]}
    /\ hold' = [hold EXCEPT ![t] = 0]
    /\ pc' = [pc EXCEPT ![t] = "loop"]
    /\ UNCHANGED <<jobs, active_jobs, completed_jobs, running, worker_threads,
                   invocations, last_outcome, exec_order>>
    /\ BatchFrame

\* an except branch that compares retry_count <= max_retries
HandleException_one_more(t, error_msg) ==
    LET j == hold[t] IN
    /\ IF jobs[j].retry_count <= jobs[j].max_retries
       THEN /\ jobs' = [jobs EXCEPT ![j].retry_count = @ + 1,
                                    ![j].status = "pending"]
            /\ queue' = queue \cup {j}
            /\ UNCHANGED <<active_jobs, completed_jobs>>
       ELSE /\ complete_job(j, None, error_msg)
            /\ UNCHANGED queue
    /\ last_outcome' = [last_outcome EXCEPT ![j] = "raised"]
    /\ hold' = [hold EXCEPT ![t] = 0]
    /\ pc' = [pc EXCEPT ![t] = "loop"]

\* _process_job's except branch: retry, or complete_job(job.id, error=str(e))
HandleException(t, error_msg) ==
    LET j == hold[t] IN
    /\ IF jobs[j].retry_count < jobs[j].max_retries
       THEN /\ jobs' = [jobs EXCEPT ![j].retry_count = @ + 1,
                                    ![j].status = "pending"]
            /\ queue' = queue \cup {j}
            /\ UNCHANGED <<active_jobs, completed_jobs>>
       ELSE /\ complete_job(j, None, error_msg)
            /\ UNCHANGED queue
    /\ last_outcome' = [last_outcome EXCEPT ![j] = "raised"]
    /\ hold' = [hold EXCEPT ![t] = 0]
    /\ pc' = [pc EXCEPT ![t] = "loop"]

FirstDispatch(j) ==
    IF exec_order = Void \/ \E i \in 1..Len(exec_order) : exec_order[i] = j
    THEN exec_order ELSE Append(exec_order, j)

\* _process_job up to the call of the processor
ProcessJob(t) ==
    /\ pc[t] = "check"
    /\ check_dependencies(hold[t])
    /\ jobs[hold[t]].job_type \in job_processors
    /\ jobs' = [jobs EXCEPT ![hold[t]].status = "processing"]
    /\ invocations' = [invocations EXCEPT ![hold[t]] = @ + 1]
    /\ exec_order' = FirstDispatch(hold[t])
    /\ pc' = [pc EXCEPT ![t] = "handler"]
    /\ UNCHANGED <<queue, active_jobs, completed_jobs, running, worker_threads,
                   hold, last_outcome>>
    /\ BatchFrame

\* _process_job for a job type with no registered processor: ValueError
ProcessJobNoProcessor(t) ==
    /\ pc[t] = "check"
    /\ check_dependencies(hold[t])
    /\ jobs[hold[t]].job_type \notin job_processors
    /\ exec_order' = FirstDispatch(hold[t])
    /\ HandleException(t, "No processor registered")
    /\ UNCHANGED <<running, worker_threads, invocations>>
    /\ BatchFrame

\* the processor returned: complete_job(job.id, result)
HandlerReturn(t) ==
    /\ pc[t] = "handler"
    /\ complete_job(hold[t], "result", None)
    /\ last_outcome' = [last_outcome EXCEPT ![hold[t]] = "returned"]
    /\ hold' = [hold EXCEPT ![t] = 0]
    /\ pc' = [pc EXCEPT ![t] = "loop"]
    /\ UNCHANGED <<queue, running, worker_threads, invocations, exec_order>>
    /\ BatchFrame

\* the processor raised an exception with message msg
HandlerRaise(t) ==
    /\ pc[t] = "handler"
    /\ \E msg \in Messages : HandleException(t, msg)
    /\ UNCHANGED <<running, worker_threads, invocations, exec_order>>
    /\ BatchFrame

Worker(t) ==
    \/ LoopCheck(t)
    \/ Dequeue(t)
    \/ DequeueEmpty(t)
    \/ Requeue(t)
    \/ ProcessJob(t)
    \/ ProcessJobNoProcessor(t)
    \/ HandlerReturn(t)
    \/ HandlerRaise(t)

BatchInit ==
    /\ jobs = <<>>
    /\ queue = {}
    /\ active_jobs = {}
    /\ completed_jobs = {}
    /\ running = FALSE
    /\ worker_threads = 0
    /\ pc = [t \in Threads |-> "unborn"]
    /\ hold = [t \in Threads |-> 0]
    /\ invocations = [j \in Jobs |-> 0]
    /\ last_outcome = [j \in Jobs |-> "none"]
    /\ exec_order = <<>>

BatchNext ==
    \/ SubmitJob
    \/ SubmitBatch
    \/ Start
    \/ Stop
    \/ \E t \in Threads : Worker(t)

(***************************************************************************)
(* Extraction client: the documents the model service returns              *)
(***************************************************************************)

\* a line field of the schema: an object {"value": v, ...}
Obj(v) == [null |-> FALSE, value |-> v]
\* a line field that is JSON null where the schema has an object
Null == [null |-> TRUE, value |-> 0]
\* a confidence (in hundredths) of a field that is absent
Absent == -1

Line(q, u, t) == [qty |-> q, unit_price |-> u, line_total |-> t]

\* the parsed JSON documents of the model: money in cents
Content(d) ==
    CASE d = "{}" ->
           [has |-> {}, vendor |-> Absent, invoice_no |-> Absent,
            service_category |-> Absent, lines |-> <<>>]
      [] d = "invoice" ->
           [has |-> {"vendor", "invoice_no", "lines"}, vendor |-> 90,
            invoice_no |-> 70, service_category |-> Absent,
            lines |-> <<Line(Obj(2), Obj(500), Obj(1001))>>]
      [] d = "low_vendor" ->
           [has |-> {"vendor", "invoice_no", "lines"}, vendor |-> 69,
            invoice_no |-> 90, service_category |-> Absent,
            lines |-> <<Line(Obj(2), Obj(500), Obj(1000))>>]
      [] d = "mismatch" ->
           [has |-> {"vendor", "invoice_no", "lines"}, vendor |-> 90,
            invoice_no |-> 90, service_category |-> Absent,
            lines |-> <<Line(Obj(1), Obj(500), Obj(500)),
                        Line(Obj(2), Obj(500), Obj(1002))>>]
      [] d = "null_qty" ->
           [has |-> {"vendor", "invoice_no", "lines"}, vendor |-> 90,
            invoice_no |-> 90, service_category |-> Absent,
            lines |-> <<Line(Null, Obj(500), Obj(500))>>]
      [] d = "zero_total" ->
           [has |-> {"vendor", "invoice_no", "lines"}, vendor |-> 90,
            invoice_no |-> 90, service_category |-> Absent,
            lines |-> <<Line(Obj(2), Obj(500), Obj(0))>>]
      [] d = "contract" ->
           [has |-> {"vendor", "service_category"}, vendor |-> 90,
            invoice_no |-> Absent, service_category |-> 90, lines |-> <<>>]
      [] d = "low_service" ->
           [has |-> {"vendor", "service_category"}, vendor |-> 90,
            invoice_no |-> Absent, service_category |-> 69, lines |-> <<>>]

\* the documents the responses of the model parse to
Docs == {"{}", "invoice", "low_vendor", "null_qty"}

\* documents of both kinds for the escalation check: confidences of 0.69,
\* 0.70 and 0.90, line totals off by 0.01, by 0.02 and by the whole amount
EscalationDocs ==
    {"invoice", "low_vendor", "mismatch", "zero_total", "contract",
     "low_service"}

\* the dictionary call() returns on failure
EmptyDict == "{}"

\* Python truthiness of a dictionary
TruthyDict(d) == d # None /\ d # "{}"

Abs(x) == IF x < 0 THEN -x ELSE x

\* _needs_escalation, lines 709-719, on one line: "raise" when a field is
\* null (None has no .get), "yes" on a total off by more than 0.01
LineCheck(line) ==
    IF line.qty.null \/ line.unit_price.null \/ line.line_total.null
    THEN "raise"
    ELSE IF /\ line.qty.value # 0
            /\ line.unit_price.value # 0
            /\ line.line_total.value # 0
            /\ Abs(line.qty.value * line.unit_price.value
                   - line.line_total.value) > 1
         THEN "yes" ELSE "no"

RECURSIVE LinesCheck(_, _)
LinesCheck(lines, i) ==
    IF i > Len(lines) THEN "no"
    ELSE IF LineCheck(lines[i]) # "no" THEN LineCheck(lines[i])
    ELSE LinesCheck(lines, i + 1)

\* the confidence threshold of _needs_escalation, in hundredths
ConfidenceThreshold == 70

\* LLMClient._needs_escalation: "yes", "no", or "raise" when it raises
needs_escalation(result) ==
    LET r == Content(result)
        required_fields ==
            IF "invoice_no" \in r.has THEN {"vendor", "invoice_no"}
            ELSE {"vendor", "service_category"}
    IN  IF \E f \in required_fields : f \in r.has /\ r[f] < ConfidenceThreshold
        THEN "yes"
        ELSE IF "lines" \in r.has THEN LinesCheck(r.lines, 1) ELSE "no"

(***************************************************************************)
(* Extraction client: call() and extract_contract / extract_invoice        *)
(***************************************************************************)

\* number of distinct texts
MaxTexts == 1

Texts == 1..MaxTexts
Kinds == {"contract", "invoice"}
small_model == "gpt-4o-mini"
large_model == "gpt-4o"
Models == {small_model, large_model}

\* the md5 of model, system prompt (one per kind), user prompt (the text),
\* temperature and seed (both fixed)
cache_key(model, kind, text) == <<model, kind, text>>

Keys == {cache_key(m, k, x) : m \in Models, k \in Kinds, x \in Texts}

\* call(), lines 406-414: the database first, then the dictionary
\* json.dumps(response): the text stored in llm_cache.response
json_dumps(d) == <<"json", d>>

\* json.loads(row['response'])
json_loads(s) == s[2]

\* no row of llm_cache for the key (younger than 7 days)
NoRow == <<>>

\* Database.get_cached_llm_response(cache_key)
get_cached_llm_response(dbc, key) ==
    IF dbc[key] = NoRow THEN None ELSE json_loads(dbc[key])

CacheHit(key, c, dbc) ==
    \/ database /\ TruthyDict(get_cached_llm_response(dbc, key))
    \/ c[key] # None

CacheValue(key, c, dbc) ==
    IF database /\ TruthyDict(get_cached_llm_response(dbc, key))
    THEN get_cached_llm_response(dbc, key) ELSE c[key]

\* a call() that does not store what it parsed
cache_store_nothing(c, key, parsed_json) == c

\* self.cache[cache_key] = parsed_json
cache_store(c, key, parsed_json) == [c EXCEPT ![key] = parsed_json]

\* database.cache_llm_response, when a database is set
db_store(dbc, key, parsed_json) ==
    IF database THEN [dbc EXCEPT ![key] = json_dumps(parsed_json)] ELSE dbc

\* a repair request sent to the large model whatever the call's model is
repair_model_large(model) == large_model

\* the model= argument of the repair request
repair_model(model) == model

\* the ways an extraction goes on
\* cheap: the result of the small model's call(), once it succeeded; hit:
\* that call() was answered from a cache; large: call()s of the large model
NoTiers == [cheap |-> None, hit |-> FALSE, large |-> 0]

Returned(result, success) ==
    [pc |-> "returned", model |-> None, result |-> result, success |-> success,
     tiers |-> NoTiers]
Raised ==
    [pc |-> "raised", model |-> None, result |-> None, success |-> FALSE,
     tiers |-> NoTiers]
Requesting(model) ==
    [pc |-> "primary", model |-> model, result |-> None, success |-> FALSE,
     tiers |-> NoTiers]

\* ad_out before any call_async
NoCall ==
    [source |-> "none", key |-> <<>>, response |-> "none", value |-> None,
     success |-> FALSE, wrote |-> {}]

\* the history of an extraction after one more step of it
MergeTiers(base, step) ==
    [cheap |-> IF step.cheap # None THEN step.cheap ELSE base.cheap,
     hit |-> base.hit \/ step.hit,
     large |-> base.large + step.large]

\* call(model=self.large_model, ...) up to its first external request
EnterLarge(kind, text, c, dbc) ==
    IF ~client THEN Raised
    ELSE IF CacheHit(cache_key(large_model, kind, text), c, dbc)
    THEN Returned(CacheValue(cache_key(large_model, kind, text), c, dbc), TRUE)
    ELSE Requesting(large_model)

\* "if needs_escalation: result, success = self.call(model=self.large_model"
escalate(result, kind, text, c, dbc) ==
    [EnterLarge(kind, text, c, dbc) EXCEPT !.tiers.large = 1]

\* extract_*: after the small model's call() returned (result, success)
after_small_success(kind, text, result, c, dbc) ==
    IF needs_escalation(result) = "raise" THEN Raised
    ELSE IF needs_escalation(result) = "yes"
    THEN escalate(result, kind, text, c, dbc)
    ELSE Returned(result, TRUE)

AfterSmall(kind, text, result, success, c, dbc) ==
    IF ~success THEN Returned(EmptyDict, FALSE)
    ELSE [after_small_success(kind, text, result, c, dbc) EXCEPT
              !.tiers.cheap = result]

\* extract_*: after a call() of the given model returned
AfterCall(model, kind, text, result, success, c, dbc) ==
    IF model = small_model
    THEN AfterSmall(kind, text, result, success, c, dbc)
    ELSE Returned(result, success)

\* call(model=self.small_model, ...) up to its first external request
\* a call() that looks in the caches before it tests self.client
EnterSmall_cache_first(kind, text, c, dbc) ==
    IF CacheHit(cache_key(small_model, kind, text), c, dbc)
    THEN [AfterSmall(kind, text,
                     CacheValue(cache_key(small_model, kind, text), c, dbc),
                     TRUE, c, dbc) EXCEPT !.tiers.hit = TRUE]
    ELSE IF ~client THEN Raised
    ELSE Requesting(small_model)

EnterSmall(kind, text, c, dbc) ==
    IF ~client THEN Raised
    ELSE IF CacheHit(cache_key(small_model, kind, text), c, dbc)
    THEN [AfterSmall(kind, text,
                     CacheValue(cache_key(small_model, kind, text), c, dbc),
                     TRUE, c, dbc) EXCEPT !.tiers.hit = TRUE]
    ELSE Requesting(small_model)

Request(model, purpose) ==
    [model |-> model, purpose |-> purpose, response |-> "pending"]

Answered(reqs, response) ==
    [reqs EXCEPT ![Len(reqs)].response = response]

\* the extraction goes on as `o` says, having made the requests reqs and
\* with the history `base`
Continue(o, reqs, base, kind, text) ==
    /\ tiers' = MergeTiers(base, o.tiers)
    /\ UNCHANGED <<cache_manager, ad_out, ad_first>>
    /\ llm_pc' = o.pc
    /\ llm_model' = o.model
    /\ llm_result' = o.result
    /\ llm_success' = o.success
    /\ requests' = IF o.pc = "primary"
                   THEN Append(reqs, Request(o.model, "primary")) ELSE reqs
    /\ prior' = IF o.pc = "returned" /\ o.success
                THEN [prior EXCEPT ![<<kind, text>>] = o.result] ELSE prior

LLMIdle == llm_pc \in {"idle", "returned", "raised"}

\* extract_contract(text) / extract_invoice(text) is called
Extract(kind, text) ==
    /\ LLMIdle
    /\ llm_kind' = kind
    /\ llm_text' = text
    /\ llm_expect' = prior[<<kind, text>>]
    /\ Continue(EnterSmall(kind, text, cache, db_cache), <<>>, NoTiers, kind,
                text)
    /\ UNCHANGED <<client, database, cache, db_cache>>

ExtractContract == \E text \in Texts : Extract("contract", text)

ExtractInvoice == \E text \in Texts : Extract("invoice", text)

\* the call() in progress returns ({}, False)
CallFails(response) ==
    /\ Continue(AfterCall(llm_model, llm_kind, llm_text, EmptyDict, FALSE,
                          cache, db_cache),
                Answered(requests, response), tiers, llm_kind, llm_text)
    /\ UNCHANGED <<client, database, cache, db_cache, llm_kind, llm_text,
                   llm_expect>>

\* the call() in progress parsed a response, stores it and returns it
CallSucceeds(parsed_json) ==
    LET key == cache_key(llm_model, llm_kind, llm_text)
        c == cache_store(cache, key, parsed_json)
        dbc == db_store(db_cache, key, parsed_json)
    IN  /\ cache' = c
        /\ db_cache' = dbc
        /\ Continue(AfterCall(llm_model, llm_kind, llm_text, parsed_json,
                              TRUE, c, dbc),
                    Answered(requests, "json"), tiers, llm_kind, llm_text)
        /\ UNCHANGED <<client, database, llm_kind, llm_text, llm_expect>>

\* the first request raises (timeout, HTTP error): except Exception
PrimaryError == llm_pc = "primary" /\ CallFails("error")

\* the first response parses
PrimaryJson == llm_pc = "primary" /\ \E d \in Docs : CallSucceeds(d)

\* the first response does not parse: the repair request is sent
PrimaryUnparseable ==
    /\ llm_pc = "primary"
    /\ llm_pc' = "repair"
    /\ requests' = Append(Answered(requests, "unparseable"),
                          Request(repair_model(llm_model), "repair"))
    /\ UNCHANGED <<client, database, cache, db_cache, llm_kind, llm_text,
                   llm_model, llm_result, llm_success, llm_expect, prior,
                   tiers, cache_manager, ad_out, ad_first>>

\* the repair request raises
RepairError == llm_pc = "repair" /\ CallFails("error")

\* the repaired text parses
RepairJson == llm_pc = "repair" /\ \E d \in Docs : CallSucceeds(d)

\* the repaired text does not parse either
RepairUnparseable == llm_pc = "repair" /\ CallFails("unparseable")

\* set_api_key(api_key)
SetApiKey ==
    /\ ~client
    /\ LLMIdle
    /\ client' = TRUE
    /\ UNCHANGED <<database, cache, db_cache, llm_pc, llm_kind, llm_text,
                   llm_model, llm_result, llm_success, requests, llm_expect,
                   prior, tiers, cache_manager, ad_out, ad_first>>

\* set_api_key(api_key) with no key to use: openai.OpenAI raises and the
\* except branch leaves self.client None.  The client is used again from
\* here on: the outcome of its last extraction is no longer looked at
SetApiKeyFails ==
    /\ LLMIdle
    /\ client
    /\ client' = FALSE
    /\ llm_pc' = "idle"
    /\ llm_result' = None
    /\ llm_success' = FALSE
    /\ requests' = <<>>
    /\ tiers' = NoTiers
    /\ UNCHANGED <<database, cache, db_cache, llm_kind, llm_text, llm_model,
                   llm_expect, prior, cache_manager, ad_out, ad_first>>

\* set_database(database), at startup
SetDatabase ==
    /\ ~database
    /\ llm_pc = "idle"
    /\ database' = TRUE
    /\ UNCHANGED <<client, cache, db_cache, llm_pc, llm_kind, llm_text,
                   llm_model, llm_result, llm_success, requests, llm_expect,
                   prior, tiers, cache_manager, ad_out, ad_first>>

\* clear_cache("*"): the cache manager and the dictionary are cleared;
\* Database has no clear_cache
ClearCache ==
    /\ LLMIdle
    /\ \E k \in Keys : cache[k] # None \/ cache_manager[k] # None
    /\ cache_manager' = [k \in Keys |-> None]
    /\ cache' = [k \in Keys |-> None]
    /\ prior' = [kt \in Kinds \X Texts |-> None]
    /\ ad_first' = [k \in Keys |-> None]
    /\ UNCHANGED <<client, database, db_cache, llm_pc, llm_kind, llm_text,
                   llm_model, llm_result, llm_success, requests, llm_expect,
                   tiers, ad_out>>

\* a row of llm_cache becomes older than 7 days
DbExpire ==
    /\ LLMIdle
    /\ \E k \in Keys :
          /\ db_cache[k] # NoRow
          /\ db_cache' = [db_cache EXCEPT ![k] = NoRow]
          /\ prior' = [prior EXCEPT ![<<k[2], k[3]>>] = None]
    /\ UNCHANGED <<client, database, cache, llm_pc, llm_kind, llm_text,
                   llm_model, llm_result, llm_success, requests, llm_expect,
                   tiers, cache_manager, ad_out, ad_first>>

LLMInit ==
    /\ client = FALSE
    /\ database = FALSE
    /\ cache = [k \in Keys |-> None]
    /\ db_cache = [k \in Keys |-> NoRow]
    /\ llm_pc = "idle"
    /\ llm_kind = None
    /\ llm_text = 0
    /\ llm_model = None
    /\ llm_result = None
    /\ llm_success = FALSE
    /\ requests = <<>>
    /\ llm_expect = None
    /\ tiers = NoTiers
    /\ cache_manager = [k \in Keys |-> None]
    /\ ad_out = NoCall
    /\ ad_first = [k \in Keys |-> None]
    /\ prior = [kt \in Kinds \X Texts |-> None]

\* the first response, or the repaired text, parses to a document of the
\* escalation check
EscalationPrimaryJson ==
    llm_pc = "primary" /\ \E d \in EscalationDocs : CallSucceeds(d)

EscalationRepairJson ==
    llm_pc = "repair" /\ \E d \in EscalationDocs : CallSucceeds(d)

\* a client with no database whose dictionary is never cleared
EscalationNext ==
    \/ (SetApiKey /\ LLMFrame)
    \/ (ExtractContract /\ LLMFrame)
    \/ (ExtractInvoice /\ LLMFrame)
    \/ (PrimaryError /\ LLMFrame)
    \/ (EscalationPrimaryJson /\ LLMFrame)
    \/ (PrimaryUnparseable /\ LLMFrame)
    \/ (RepairError /\ LLMFrame)
    \/ (EscalationRepairJson /\ LLMFrame)
    \/ (RepairUnparseable /\ LLMFrame)

LLMNext ==
    \/ (SetApiKey /\ LLMFrame)
    \/ (SetDatabase /\ LLMFrame)
    \/ (ExtractContract /\ LLMFrame)
    \/ (ExtractInvoice /\ LLMFrame)
    \/ (PrimaryError /\ LLMFrame)
    \/ (PrimaryJson /\ LLMFrame)
    \/ (PrimaryUnparseable /\ LLMFrame)
    \/ (RepairError /\ LLMFrame)
    \/ (RepairJson /\ LLMFrame)
    \/ (RepairUnparseable /\ LLMFrame)
    \/ (ClearCache /\ LLMFrame)
    \/ (DbExpire /\ LLMFrame)

\* a client whose API key is set and unset
NoKeyNext ==
    \/ LLMNext
    \/ (SetApiKeyFails /\ LLMFrame)

(***************************************************************************)
(* LLMClient.call_async: the response, the caches and the value returned   *)
(*                                                                         *)
(* One call_async at a time, with a connection pool and inside the rate    *)
(* limit.  A ChatCompletion, the object the service's client returns, is   *)
(* written "ChatCompletion(c)" where c is the text of its message: the     *)
(* name of the document it parses to, or "unparseable".                    *)
(***************************************************************************)

\* the texts of the responses: two JSON documents and a text that is no JSON
ResponseTexts == {"invoice", "{}", "unparseable"}

ChatCompletion(text) == "ChatCompletion(" \o text \o ")"

ChatCompletions == {ChatCompletion(text) : text \in ResponseTexts}

\* response.choices[0].message.content
content(response) ==
    CHOOSE text \in ResponseTexts : ChatCompletion(text) = response

\* _parse_response: json.loads, and {} on a JSONDecodeError
parse_response(response) ==
    IF content(response) = "unparseable" THEN EmptyDict
    ELSE content(response)

\* Python's truth value of a cached value: None and {} are false, a
\* ChatCompletion and a dictionary with keys are true
truth(value) == value # None /\ value # "{}"

\* _get_cached_response: the cache manager, then the database, then the
\* dictionary
get_cached_response(key) ==
    IF truth(cache_manager[key]) THEN cache_manager[key]
    ELSE IF database /\ truth(get_cached_llm_response(db_cache, key))
    THEN get_cached_llm_response(db_cache, key)
    ELSE cache[key]

\* _get_cached_response promotes a database row to the cache manager
promoted(key) ==
    IF ~truth(cache_manager[key]) /\ database
       /\ truth(get_cached_llm_response(db_cache, key))
    THEN [cache_manager EXCEPT ![key] = get_cached_llm_response(db_cache, key)]
    ELSE cache_manager

\* json.dumps(response) in Database.cache_llm_response raises TypeError on a
\* ChatCompletion
json_dumps_raises(response) == response \in ChatCompletions

\* the caches an action writes
Written ==
    {name \in {"cache_manager", "cache", "llm_cache"} :
        \/ name = "cache_manager" /\ cache_manager' # cache_manager
        \/ name = "cache" /\ cache' # cache
        \/ name = "llm_cache" /\ db_cache' # db_cache}

CallAsyncReturn(source, key, response, value, success) ==
    ad_out' = [source |-> source, key |-> key, response |-> response,
               value |-> value, success |-> success, wrote |-> Written]

CallAsyncFrame ==
    UNCHANGED <<client, database, llm_pc, llm_kind, llm_text, llm_model,
                llm_result, llm_success, requests, llm_expect, prior, tiers>>

\* call_async: the cached response is returned
CallAsyncHit(key) ==
    /\ client
    /\ LLMIdle
    /\ truth(get_cached_response(key))
    /\ cache_manager' = promoted(key)
    /\ UNCHANGED <<cache, db_cache, ad_first>>
    /\ CallAsyncReturn("cache", key, "none", get_cached_response(key), TRUE)
    /\ CallAsyncFrame

\* call_async: nothing cached, and _make_api_call returns None (the request
\* raised)
CallAsyncNoResponse(key) ==
    /\ client
    /\ LLMIdle
    /\ ~truth(get_cached_response(key))
    /\ UNCHANGED <<cache_manager, cache, db_cache, ad_first>>
    /\ CallAsyncReturn("api", key, "none", EmptyDict, FALSE)
    /\ CallAsyncFrame

\* call_async: nothing cached, and _make_api_call returns a response.
\* _cache_response stores the response in the cache manager and in the
\* dictionary, then hands it to the database; then the response is parsed
CallAsyncResponse(key, response) ==
    /\ client
    /\ LLMIdle
    /\ ~truth(get_cached_response(key))
    /\ cache_manager' = [cache_manager EXCEPT ![key] = response]
    /\ cache' = [cache EXCEPT ![key] = response]
    /\ UNCHANGED db_cache
    /\ LET value == IF database /\ json_dumps_raises(response)
                    THEN EmptyDict ELSE parse_response(response)
           success == ~(database /\ json_dumps_raises(response))
       IN  /\ CallAsyncReturn("api", key, content(response), value, success)
           /\ ad_first' = [ad_first EXCEPT ![key] = value]
    /\ CallAsyncFrame

\* an entry of the cache manager expires (its TTL is 1 to 24 hours)
ManagerExpire(key) ==
    /\ cache_manager[key] # None
    /\ cache_manager' = [cache_manager EXCEPT ![key] = None]
    /\ UNCHANGED <<cache, db_cache, ad_out, ad_first>>
    /\ CallAsyncFrame

CallAsyncNext ==
    \/ (SetApiKey /\ LLMFrame)
    \/ (SetDatabase /\ LLMFrame)
    \/ (ClearCache /\ LLMFrame)
    \/ \E key \in Keys :
          \/ (CallAsyncHit(key) /\ LLMFrame)
          \/ (CallAsyncNoResponse(key) /\ LLMFrame)
          \/ (\E response \in ChatCompletions :
                  CallAsyncResponse(key, response) /\ LLMFrame)
          \/ (ManagerExpire(key) /\ LLMFrame)

(***************************************************************************)
(* MemoryCache                                                             *)
(***************************************************************************)

\* number of distinct cache keys
MaxKeys == 3
\* the last reading of the clock
MaxTime == 3
\* MemoryCache.max_size, scaled down
max_size == 2
\* MemoryCache.max_memory_bytes, scaled down
max_memory_bytes == 3000
\* set(): values above this size are compressed
CompressThreshold == 1024
\* ttl=None
NoTTL == -1

CacheKeys == 1..MaxKeys
TTLs == {NoTTL, 1}
\* the values stored: a short one, and a long one that compresses well
CacheValues == {"short", "long"}

\* len(pickle.dumps(value))
PickleSize(value) ==
    IF value = "short" THEN 100 ELSE IF value = "huge" THEN 4000 ELSE 2000
\* len(zlib.compress(serialized))
ZlibSize(value) ==
    IF value = "short" THEN 90 ELSE IF value = "huge" THEN 3900 ELSE 1500

\* set(), lines 93-99: compressed when above 1 KB and 20% is saved
IsCompressed(value) ==
    /\ PickleSize(value) > CompressThreshold
    /\ 10 * ZlibSize(value) < 8 * PickleSize(value)

StoredSize(value) ==
    IF IsCompressed(value) THEN ZlibSize(value) ELSE PickleSize(value)

\* no CacheEntry
NoEntry ==
    [present |-> FALSE, value |-> None, created_at |-> 0, last_accessed |-> 0,
     ttl |-> NoTTL, compressed |-> FALSE, size_bytes |-> 0]

\* CacheEntry.is_expired
is_expired(entry) ==
    IF entry.ttl = NoTTL THEN FALSE ELSE now - entry.created_at > entry.ttl

\* the cache as the methods' local view of it
MemState == [data |-> data, order |-> order, memory |-> current_memory,
             log |-> <<>>]

Without(seq, k) == SelectSeq(seq, LAMBDA x : x # k)

\* MemoryCache._remove_entry
remove_entry(st, k) ==
    IF st.data[k].present
    THEN [st EXCEPT !.memory = @ - st.data[k].size_bytes,
                    !.data = [@ EXCEPT ![k] = NoEntry],
                    !.order = Without(@, k)]
    ELSE st

\* a victim chosen by creation time
lru_key_oldest_created(st) ==
    st.order[CHOOSE i \in 1..Len(st.order) :
        \A j \in 1..Len(st.order) :
            \/ st.data[st.order[i]].created_at < st.data[st.order[j]].created_at
            \/ st.data[st.order[i]].created_at = st.data[st.order[j]].created_at
               /\ i <= j]

\* _evict_lru: min(self.data.keys(), key=last_accessed), the first of the
\* least in the dict's order
lru_key(st) ==
    st.order[CHOOSE i \in 1..Len(st.order) :
        \A j \in 1..Len(st.order) :
            \/ st.data[st.order[i]].last_accessed
                   < st.data[st.order[j]].last_accessed
            \/ st.data[st.order[i]].last_accessed
                   = st.data[st.order[j]].last_accessed
               /\ i <= j]

\* MemoryCache._evict_lru
evict_lru(st) ==
    IF Len(st.order) = 0 THEN st
    ELSE [remove_entry(st, lru_key(st)) EXCEPT
              !.log = Append(@, [key |-> lru_key(st),
                                 created_at |-> st.data[lru_key(st)].created_at,
                                 last_accessed |->
                                     st.data[lru_key(st)].last_accessed])]

\* _ensure_capacity: the memory loop
RECURSIVE MemoryLoop(_, _)
MemoryLoop(st, new_size) ==
    IF st.memory + new_size > max_memory_bytes /\ Len(st.order) > 0
    THEN MemoryLoop(evict_lru(st), new_size) ELSE st

\* _ensure_capacity: the count loop
RECURSIVE CountLoop(_)
CountLoop(st) ==
    IF Len(st.order) >= max_size /\ Len(st.order) > 0
    THEN CountLoop(evict_lru(st)) ELSE st

\* MemoryCache._ensure_capacity
ensure_capacity(st, new_size) == CountLoop(MemoryLoop(st, new_size))

\* MemoryCache.set, on the local view
mem_set(st, key, value, ttl) ==
    LET size == StoredSize(value)
        st1 == remove_entry(ensure_capacity(st, size), key)
    IN  [st1 EXCEPT
            !.data = [@ EXCEPT ![key] =
                [present |-> TRUE, value |-> value, created_at |-> now,
                 last_accessed |-> now, ttl |-> ttl,
                 compressed |-> IsCompressed(value), size_bytes |-> size]],
            !.order = Append(@, key),
            !.memory = @ + size]

Commit(st) ==
    /\ data' = st.data
    /\ order' = st.order
    /\ current_memory' = st.memory
    /\ evict_log' = st.log
    /\ UNCHANGED now
    /\ MemFrame

\* MemoryCache.set(key, value, ttl)
MemSet ==
    \E key \in CacheKeys, value \in CacheValues, ttl \in TTLs :
        Commit(mem_set(MemState, key, value, ttl))

\* MemoryCache.get(key): a hit touches the entry
MemGetHit ==
    \E key \in CacheKeys :
        /\ data[key].present
        /\ ~is_expired(data[key])
        /\ Commit([MemState EXCEPT !.data[key].last_accessed = now])

\* MemoryCache.get(key): an expired entry is removed
MemGetExpired ==
    \E key \in CacheKeys :
        /\ data[key].present
        /\ is_expired(data[key])
        /\ Commit(remove_entry(MemState, key))

\* MemoryCache.delete(key)
MemDelete ==
    \E key \in CacheKeys :
        /\ data[key].present
        /\ Commit(remove_entry(MemState, key))

\* MemoryCache.clear()
MemClear ==
    /\ order # <<>>
    /\ Commit([MemState EXCEPT !.data = [k \in CacheKeys |-> NoEntry],
                               !.order = <<>>, !.memory = 0])

\* time passes
Tick ==
    /\ now < MaxTime
    /\ now' = now + 1
    /\ UNCHANGED <<data, order, current_memory, evict_log>>
    /\ MemFrame

MemInit ==
    /\ data = [k \in CacheKeys |-> NoEntry]
    /\ order = <<>>
    /\ current_memory = 0
    /\ now = 0
    /\ evict_log = <<>>

\* the values of the cache and one whose pickle is larger than the memory
\* cap and does not compress
BoundValues == CacheValues \cup {"huge"}

\* MemoryCache.set(key, value, ttl) of a value of any size
MemSetAnySize ==
    \E key \in CacheKeys, value \in BoundValues, ttl \in TTLs :
        Commit(mem_set(MemState, key, value, ttl))

BoundsNext ==
    \/ MemSetAnySize
    \/ MemGetHit
    \/ MemGetExpired
    \/ MemDelete
    \/ MemClear
    \/ Tick

MemNext ==
    \/ MemSet
    \/ MemGetHit
    \/ MemGetExpired
    \/ MemDelete
    \/ MemClear
    \/ Tick

(***************************************************************************)
(* MultiLayerCache over MemoryCache (L1) and PersistentCache (L2)          *)
(***************************************************************************)

\* number of concurrent callers of the cache
MaxCallers == 2
\* number of keys the concurrent callers use
MaxSharedKeys == 1

Callers == 1..MaxCallers
SharedKeys == 1..MaxSharedKeys

\* no row of cache_entries
NoRow2 == [present |-> FALSE, value |-> None, created_at |-> 0, ttl |-> NoTTL]

\* a caller between two calls
NoLocal == [key |-> 0, value |-> None, ttl |-> NoTTL]

\* a caller that made no get
NoGet == [key |-> 0, done |-> FALSE, value |-> None, must_miss |-> FALSE,
          must_hit |-> "any", expect |-> "any"]

\* a key no completed set stands for
NoSet == [at |-> 0, ttl |-> NoTTL, value |-> None]

\* the other callers that are inside a set or a delete of the key
Writers(key) ==
    {u \in Callers : ml_pc[u] \in {"set_l2", "delete_l2"}
                     /\ ml_local[u].key = key}

\* the callers that are inside a get of the key
Readers(key) ==
    {u \in Callers : ml_pc[u] \in {"get_l2", "promote"}
                     /\ ml_local[u].key = key}

\* MemoryCache.get on the local view: a hit touches, an expired entry goes
l1_hit(key) == data[key].present /\ ~is_expired(data[key])

mem_get(st, key) ==
    IF l1_hit(key) THEN [st EXCEPT !.data[key].last_accessed = now]
    ELSE remove_entry(st, key)

\* an operation of the L1 cache made by the MultiLayerCache
L1(st) ==
    /\ data' = st.data
    /\ order' = st.order
    /\ current_memory' = st.memory
    /\ evict_log' = st.log
    /\ UNCHANGED now

\* PersistentCache.get(key): the entry returned, NoRow2 for None
l2_hit(key) == l2[key].present /\ ~is_expired(l2[key])

\* PersistentCache.get(key): an expired row is deleted
l2_after_get(key) == IF l2_hit(key) THEN l2 ELSE [l2 EXCEPT ![key] = NoRow2]

\* PersistentCache.set(key, value, ttl): INSERT OR REPLACE
l2_set(key, value, ttl) ==
    [l2 EXCEPT ![key] = [present |-> TRUE, value |-> value,
                         created_at |-> now, ttl |-> ttl]]

\* PersistentCache.delete(key)
l2_delete(key) == [l2 EXCEPT ![key] = NoRow2]

\* history: what a get that starts now has to return
Expectation(key) ==
    [key |-> key, done |-> FALSE, value |-> None,
     must_miss |-> /\ last_set[key].value # None
                   /\ last_set[key].ttl # NoTTL
                   /\ now > last_set[key].at + last_set[key].ttl,
     must_hit |-> IF last_set[key].value # None /\ last_set[key].ttl = NoTTL
                  THEN last_set[key].value ELSE "any",
     expect |-> IF Writers(key) = {} THEN latest[key] ELSE "any"]

\* history: the get of caller t returns value
GetReturns(t, value) ==
    /\ ml_get' = [ml_get EXCEPT ![t].done = TRUE, ![t].value = value]
    /\ ml_pc' = [ml_pc EXCEPT ![t] = "idle"]
    /\ ml_local' = [ml_local EXCEPT ![t] = NoLocal]

\* history: caller t starts a set or a delete of the key
WriteStarts(t, key) ==
    /\ ml_clean' = [u \in Callers |->
                       IF u = t THEN Writers(key) = {}
                       ELSE IF u \in Writers(key) THEN FALSE
                       ELSE ml_clean[u]]
    /\ ml_get' = [u \in Callers |->
                     IF u = t THEN NoGet
                     ELSE IF u \in Readers(key)
                     THEN [ml_get[u] EXCEPT !.expect = "any"]
                     ELSE ml_get[u]]
    /\ last_set' = [last_set EXCEPT ![key] = NoSet]

\* history: caller t's write of the key returns, leaving value (None: deleted)
WriteReturns(t, key, value) ==
    /\ latest' = [latest EXCEPT ![key] = IF ml_clean[t] THEN value ELSE "any"]
    /\ ml_pc' = [ml_pc EXCEPT ![t] = "idle"]
    /\ ml_local' = [ml_local EXCEPT ![t] = NoLocal]

\* MultiLayerCache.get(key): self.l1_cache.get(key), and the return on a hit
MLGetL1(t, key) ==
    /\ ml_pc[t] = "idle"
    /\ L1(mem_get(MemState, key))
    /\ IF l1_hit(key)
       THEN /\ ml_get' = [ml_get EXCEPT ![t] =
                   [Expectation(key) EXCEPT !.done = TRUE,
                                            !.value = data[key].value]]
            /\ UNCHANGED <<ml_pc, ml_local>>
       ELSE /\ ml_get' = [ml_get EXCEPT ![t] = Expectation(key)]
            /\ ml_pc' = [ml_pc EXCEPT ![t] = "get_l2"]
            /\ ml_local' = [ml_local EXCEPT ![t] = [NoLocal EXCEPT !.key = key]]
    /\ UNCHANGED <<l2, last_set, latest, ml_clean>>
    /\ MLCFrame

\* MultiLayerCache.get(key): self.l2_cache.get(key), and the return on a miss
MLGetL2(t) ==
    /\ ml_pc[t] = "get_l2"
    /\ l2' = l2_after_get(ml_local[t].key)
    /\ IF l2_hit(ml_local[t].key)
       THEN /\ ml_pc' = [ml_pc EXCEPT ![t] = "promote"]
            /\ ml_local' = [ml_local EXCEPT
                               ![t].value = l2[ml_local[t].key].value,
                               ![t].ttl = l2[ml_local[t].key].ttl]
            /\ UNCHANGED ml_get
       ELSE GetReturns(t, None)
    /\ UNCHANGED <<mem_vars, last_set, latest, ml_clean>>
    /\ MLCFrame

\* MultiLayerCache.get(key): the promotion self.l1_cache.set(key,
\* entry.value, entry.ttl), and the return of entry.value
MLPromote(t) ==
    /\ ml_pc[t] = "promote"
    /\ L1(mem_set(MemState, ml_local[t].key, ml_local[t].value,
                  ml_local[t].ttl))
    /\ GetReturns(t, ml_local[t].value)
    /\ UNCHANGED <<l2, last_set, latest, ml_clean>>
    /\ MLCFrame

\* MultiLayerCache.set(key, value, ttl): self.l1_cache.set(key, value, ttl)
MLSetL1(t, key, value, ttl) ==
    /\ ml_pc[t] = "idle"
    /\ L1(mem_set(MemState, key, value, ttl))
    /\ WriteStarts(t, key)
    /\ ml_pc' = [ml_pc EXCEPT ![t] = "set_l2"]
    /\ ml_local' = [ml_local EXCEPT ![t] =
                       [key |-> key, value |-> value, ttl |-> ttl]]
    /\ UNCHANGED <<l2, latest>>
    /\ MLCFrame

\* MultiLayerCache.set(key, value, ttl): self.l2_cache.set(key, value, ttl)
MLSetL2(t) ==
    /\ ml_pc[t] = "set_l2"
    /\ l2' = l2_set(ml_local[t].key, ml_local[t].value, ml_local[t].ttl)
    /\ WriteReturns(t, ml_local[t].key, ml_local[t].value)
    /\ last_set' = [last_set EXCEPT ![ml_local[t].key] =
                       IF ml_clean[t]
                       THEN [at |-> now, ttl |-> ml_local[t].ttl,
                             value |-> ml_local[t].value]
                       ELSE NoSet]
    /\ UNCHANGED <<mem_vars, ml_get, ml_clean>>
    /\ MLCFrame

\* MultiLayerCache.delete(key): self.l1_cache.delete(key)
MLDeleteL1(t, key) ==
    /\ ml_pc[t] = "idle"
    /\ L1(remove_entry(MemState, key))
    /\ WriteStarts(t, key)
    /\ ml_pc' = [ml_pc EXCEPT ![t] = "delete_l2"]
    /\ ml_local' = [ml_local EXCEPT ![t] = [NoLocal EXCEPT !.key = key]]
    /\ UNCHANGED <<l2, latest>>
    /\ MLCFrame

\* MultiLayerCache.delete(key): self.l2_cache.delete(key)
MLDeleteL2(t) ==
    /\ ml_pc[t] = "delete_l2"
    /\ l2' = l2_delete(ml_local[t].key)
    /\ WriteReturns(t, ml_local[t].key, None)
    /\ UNCHANGED <<mem_vars, ml_get, last_set, ml_clean>>
    /\ MLCFrame

MLCInit ==
    /\ l2 = [k \in CacheKeys |-> NoRow2]
    /\ ml_pc = [t \in Callers |-> "idle"]
    /\ ml_local = [t \in Callers |-> NoLocal]
    /\ ml_get = [t \in Callers |-> NoGet]
    /\ last_set = [k \in CacheKeys |-> NoSet]
    /\ latest = [k \in CacheKeys |-> None]
    /\ ml_clean = [t \in Callers |-> TRUE]

\* one caller; entries of one value, with and without a ttl; time passes
MLCNext ==
    \/ \E key \in CacheKeys : MLGetL1(1, key)
    \/ MLGetL2(1)
    \/ MLPromote(1)
    \/ \E key \in CacheKeys, ttl \in TTLs : MLSetL1(1, key, "short", ttl)
    \/ MLSetL2(1)
    \/ \E key \in CacheKeys : MLDeleteL1(1, key)
    \/ MLDeleteL2(1)
    \/ Tick

\* concurrent callers on shared keys; entries without a ttl
SharedNext ==
    \E t \in Callers :
        \/ \E key \in SharedKeys : MLGetL1(t, key)
        \/ MLGetL2(t)
        \/ MLPromote(t)
        \/ \E key \in SharedKeys, value \in CacheValues :
               MLSetL1(t, key, value, NoTTL)
        \/ MLSetL2(t)
        \/ \E key \in SharedKeys : MLDeleteL1(t, key)
        \/ MLDeleteL2(t)

(***************************************************************************)
(* MultiLayerCache with layers that fail                                   *)
(*                                                                         *)
(* One caller at a time.  A value may be one that pickle cannot serialize  *)
(* (a lock, a lambda, an open file), and the database of the persistent    *)
(* cache may be unavailable during an operation (sqlite3.Error).           *)
(***************************************************************************)

\* the values handed to set: those of the cache, and one pickle.dumps rejects
FaultValues == CacheValues \cup {"unpicklable"}

\* pickle.dumps(value) raises
pickle_dumps_raises(value) == value = "unpicklable"

Outcome(op, fault, result) == [op |-> op, fault |-> fault, result |-> result]

\* Python's bool as text
Bool(b) == IF b THEN "true" ELSE "false"

\* MultiLayerCache.get(key); l2_error: the database fails during l2_cache.get
FaultyGet(key, l2_error) ==
    /\ IF l1_hit(key)
       THEN /\ L1(mem_get(MemState, key))
            /\ ml_out' = Outcome("get", "none", data[key].value)
            /\ UNCHANGED l2
       ELSE IF l2_error
       THEN /\ L1(mem_get(MemState, key))
            /\ ml_out' = Outcome("get", "storage", "miss")
            /\ UNCHANGED l2
       ELSE IF l2_hit(key)
       THEN /\ L1(mem_set(mem_get(MemState, key), key, l2[key].value,
                          l2[key].ttl))
            /\ ml_out' = Outcome("get", "none", l2[key].value)
            /\ UNCHANGED l2
       ELSE /\ L1(mem_get(MemState, key))
            /\ ml_out' = Outcome("get", "none", "miss")
            /\ l2' = l2_after_get(key)
    /\ FaultFrame

\* MultiLayerCache.set(key, value, ttl); l2_error: the database fails during
\* l2_cache.set.  MemoryCache.set calls pickle.dumps outside any try
FaultySet(key, value, ttl, l2_error) ==
    /\ IF pickle_dumps_raises(value)
       THEN /\ ml_out' = Outcome("set", "serialization", "raised")
            /\ UNCHANGED <<mem_vars, l2>>
       ELSE /\ L1(mem_set(MemState, key, value, ttl))
            /\ IF l2_error
               THEN /\ ml_out' = Outcome("set", "storage", "false")
                    /\ UNCHANGED l2
               ELSE /\ ml_out' = Outcome("set", "none", "true")
                    /\ l2' = l2_set(key, value, ttl)
    /\ FaultFrame

\* MultiLayerCache.delete(key): l1_success or l2_success
FaultyDelete(key, l2_error) ==
    /\ L1(remove_entry(MemState, key))
    /\ IF l2_error
       THEN /\ ml_out' = Outcome("delete", "storage", Bool(data[key].present))
            /\ UNCHANGED l2
       ELSE /\ ml_out' = Outcome("delete", "none",
                                 Bool(data[key].present \/ l2[key].present))
            /\ l2' = l2_delete(key)
    /\ FaultFrame

\* MultiLayerCache.maintenance(): cleanup_expired deletes the rows its SQL
\* finds expired, comparing julianday('now') with the stored created_at; it
\* returns 0 on an error
FaultyMaintenance(l2_error) ==
    /\ IF l2_error
       THEN /\ ml_out' = Outcome("maintenance", "storage", "none")
            /\ UNCHANGED l2
       ELSE /\ ml_out' = Outcome("maintenance", "none", "none")
            /\ \E gone \in SUBSET {k \in CacheKeys :
                                     l2[k].present /\ l2[k].ttl # NoTTL} :
                   l2' = [k \in CacheKeys |->
                             IF k \in gone THEN NoRow2 ELSE l2[k]]
    /\ UNCHANGED mem_vars
    /\ FaultFrame

\* no set of the key yet, and no get yet
NoLastSet ==
    [value |-> None, ttl |-> NoTTL, at |-> 0, persist |-> FALSE,
     l2_unchanged |-> TRUE]

\* the set is still within its ttl at the current time
BeforeExpiry(set) ==
    set.ttl = NoTTL \/ now - set.at <= set.ttl

NoLastGet ==
    [result |-> None, source |-> "none", value |-> None, persist |-> FALSE,
     before_expiry |-> FALSE, l1_after |-> FALSE]

\* MultiLayerCache.set(key, value, ttl, persist), one caller
ReadPathSet(key, value, ttl, persist) ==
    /\ L1(mem_set(MemState, key, value, ttl))
    /\ l2' = IF persist THEN l2_set(key, value, ttl) ELSE l2
    /\ rp_last' = [rp_last EXCEPT ![key] =
                       [value |-> value, ttl |-> ttl, at |-> now,
                        persist |-> persist, l2_unchanged |-> l2' = l2]]
    /\ UNCHANGED rp_get
    /\ ReadPathFrame

\* the get of the key returns result, found in source
ReadPathReturns(key, result, source) ==
    rp_get' = [result |-> result, source |-> source,
               value |-> rp_last[key].value,
               persist |-> rp_last[key].persist,
               before_expiry |-> BeforeExpiry(rp_last[key]),
               l1_after |-> /\ data'[key].present
                            /\ data'[key].value = result]

\* MultiLayerCache.get(key), one caller
ReadPathGet(key) ==
    /\ IF l1_hit(key)
       THEN /\ L1(mem_get(MemState, key))
            /\ UNCHANGED l2
            /\ ReadPathReturns(key, data[key].value, "l1")
       ELSE IF l2_hit(key)
       THEN /\ L1(mem_set(mem_get(MemState, key), key, l2[key].value,
                          l2[key].ttl))
            /\ UNCHANGED l2
            /\ ReadPathReturns(key, l2[key].value, "l2")
       ELSE /\ L1(mem_get(MemState, key))
            /\ l2' = l2_after_get(key)
            /\ ReadPathReturns(key, "miss", "none")
    /\ UNCHANGED rp_last
    /\ ReadPathFrame

\* number of keys the one caller reads and writes
MaxReadKeys == 1

ReadKeys == 1..MaxReadKeys

ReadPathNext ==
    \/ \E key \in ReadKeys, value \in CacheValues, ttl \in TTLs,
          persist \in BOOLEAN : ReadPathSet(key, value, ttl, persist)
    \/ \E key \in ReadKeys : ReadPathGet(key)
    \/ MemClear
    \/ Tick

FaultInit ==
    /\ ml_out = Outcome("none", "none", "none")
    /\ rp_last = [k \in CacheKeys |-> NoLastSet]
    /\ rp_get = NoLastGet

FaultNext ==
    \/ \E key \in SharedKeys, l2_error \in BOOLEAN : FaultyGet(key, l2_error)
    \/ \E key \in SharedKeys, value \in FaultValues, ttl \in TTLs,
          l2_error \in BOOLEAN : FaultySet(key, value, ttl, l2_error)
    \/ \E key \in SharedKeys, l2_error \in BOOLEAN : FaultyDelete(key, l2_error)
    \/ \E l2_error \in BOOLEAN : FaultyMaintenance(l2_error)
    \/ Tick

(***************************************************************************)
(* LLMClient.call_async: rate limiter and LLMConnectionPool                *)
(***************************************************************************)

\* number of concurrent callers of the client
MaxAsyncCallers == 3
\* the last reading of the clock
MaxClock == 2
\* number of external requests recorded
MaxSent == 3
\* LLMConnectionPool.pool_size, scaled down
pool_size == 2
\* LLMClient.rate_limit_requests, scaled down
rate_limit_requests == 2
\* LLMClient.rate_limit_window, scaled down
rate_limit_window == 2
\* await asyncio.sleep(1)
SleepSeconds == 1

AsyncCallers == 1..MaxAsyncCallers

\* LLMConnectionPool.clients after _initialize_pool
clients == 1..pool_size

\* _check_rate_limit: the timestamps still inside the window
InWindow(times) ==
    SelectSeq(times, LAMBDA t : clock - t < rate_limit_window)

\* _check_rate_limit: its result
check_rate_limit == Len(InWindow(request_times)) < rate_limit_requests

\* _check_rate_limit: self.request_times afterwards
after_check ==
    IF check_rate_limit THEN Append(InWindow(request_times), clock)
    ELSE InWindow(request_times)

\* a pop that leaves the client in the list
pop_rest_keeps(avail) == avail

\* available_clients after available_clients.pop()
pop_rest(avail) == SubSeq(avail, 1, Len(avail) - 1)

\* the caller's call_async so far: errors counted in the metrics, waits,
\* whether a rate check passed, external requests, responses cached
NoHistory ==
    [errors |-> 0, waits |-> 0, passed |-> FALSE, sent |-> 0, cached |-> 0]

\* _update_metrics that never counts an error
update_metrics_no_error(h, is_error) == h

\* _update_metrics: "if is_error: self.metrics.error_count += 1"
update_metrics(h, is_error) ==
    IF is_error THEN [h EXCEPT !.errors = @ + 1] ELSE h

\* the caller's call ends
AsyncReturns(c, out) ==
    /\ as_pc' = [as_pc EXCEPT ![c] = "idle"]
    /\ as_out' = [as_out EXCEPT ![c] = out]

\* call_async: the first _check_rate_limit
CallAsyncCheck(c) ==
    /\ as_pc[c] = "idle"
    /\ request_times' = after_check
    /\ as_pc' = [as_pc EXCEPT ![c] = IF check_rate_limit THEN "cache"
                                     ELSE "sleep"]
    /\ slept_at' = [slept_at EXCEPT ![c] = IF check_rate_limit THEN 0
                                           ELSE clock]
    /\ as_out' = [as_out EXCEPT ![c] = "none"]
    /\ as_hist' = [as_hist EXCEPT ![c] =
                       [NoHistory EXCEPT
                            !.passed = check_rate_limit,
                            !.waits = IF check_rate_limit THEN 0 ELSE 1]]
    /\ UNCHANGED <<available_clients, held, clock, sent>>
    /\ AsyncFrame

\* call_async: after asyncio.sleep(1), the second _check_rate_limit
CallAsyncRecheck(c) ==
    /\ as_pc[c] = "sleep"
    /\ clock >= slept_at[c] + SleepSeconds
    /\ request_times' = after_check
    /\ IF check_rate_limit
       THEN /\ as_pc' = [as_pc EXCEPT ![c] = "cache"]
            /\ as_hist' = [as_hist EXCEPT ![c].passed = TRUE]
            /\ UNCHANGED as_out
       ELSE /\ as_hist' = [as_hist EXCEPT
                               ![c] = update_metrics(as_hist[c], TRUE)]
            /\ AsyncReturns(c, "rate_limited")
    /\ slept_at' = [slept_at EXCEPT ![c] = 0]
    /\ UNCHANGED <<available_clients, held, clock, sent>>
    /\ AsyncFrame

\* call_async: _get_cached_response finds the response
AsyncCacheHit(c) ==
    /\ as_pc[c] = "cache"
    /\ AsyncReturns(c, "hit")
    /\ as_hist' = [as_hist EXCEPT ![c] = update_metrics(as_hist[c], FALSE)]
    /\ UNCHANGED <<request_times, available_clients, held, slept_at, clock,
                   sent>>
    /\ AsyncFrame

\* call_async: _get_cached_response finds nothing
AsyncCacheMiss(c) ==
    /\ as_pc[c] = "cache"
    /\ as_pc' = [as_pc EXCEPT ![c] = "acquire"]
    /\ UNCHANGED <<request_times, available_clients, held, as_out, slept_at,
                   clock, sent, as_hist>>
    /\ AsyncFrame

\* LLMConnectionPool.get_client: a client is available and is popped
Acquire(c) ==
    /\ as_pc[c] = "acquire"
    /\ available_clients # <<>>
    /\ held' = [held EXCEPT ![c] = available_clients[Len(available_clients)]]
    /\ available_clients' = pop_rest(available_clients)
    /\ as_pc' = [as_pc EXCEPT ![c] = "holding"]
    /\ UNCHANGED <<request_times, as_out, slept_at, clock, sent, as_hist>>
    /\ AsyncFrame

\* the block of `async with get_client()`: the request is made, and the
\* block is left normally (a response, or None from _make_api_call)
BlockReturns(c) ==
    /\ as_pc[c] = "holding"
    /\ Len(sent) < MaxSent
    /\ sent' = Append(sent, clock)
    /\ as_pc' = [as_pc EXCEPT ![c] = "finally"]
    /\ \E out \in {"ok", "failed"} :
          /\ as_out' = [as_out EXCEPT ![c] = out]
          /\ as_hist' = [as_hist EXCEPT
                             ![c].sent = @ + 1,
                             ![c].cached = IF out = "ok" THEN @ + 1 ELSE @]
    /\ UNCHANGED <<request_times, available_clients, held, slept_at, clock>>
    /\ AsyncFrame

\* the block of `async with get_client()`: the request is made, and an
\* exception leaves the block
BlockRaises(c) ==
    /\ as_pc[c] = "holding"
    /\ Len(sent) < MaxSent
    /\ sent' = Append(sent, clock)
    /\ as_pc' = [as_pc EXCEPT ![c] = "finally"]
    /\ as_out' = [as_out EXCEPT ![c] = "exception"]
    /\ as_hist' = [as_hist EXCEPT ![c].sent = @ + 1]
    /\ UNCHANGED <<request_times, available_clients, held, slept_at, clock>>
    /\ AsyncFrame

\* LLMConnectionPool.get_client: finally, the client is appended
Release(c) ==
    /\ as_pc[c] = "finally"
    /\ available_clients' = Append(available_clients, held[c])
    /\ held' = [held EXCEPT ![c] = 0]
    /\ as_pc' = [as_pc EXCEPT ![c] = "idle"]
    /\ as_hist' = [as_hist EXCEPT
                       ![c] = update_metrics(as_hist[c],
                                             as_out[c] = "exception")]
    /\ UNCHANGED <<request_times, as_out, slept_at, clock, sent>>
    /\ AsyncFrame

\* call() (also under extract_contract, extract_invoice, reconcile_review and
\* the fallback of call_async): the request of a cache miss
SyncCall(c) ==
    /\ as_pc[c] = "idle"
    /\ Len(sent) < MaxSent
    /\ sent' = Append(sent, clock)
    /\ as_out' = [as_out EXCEPT ![c] = "none"]
    /\ as_hist' = [as_hist EXCEPT ![c] = NoHistory]
    /\ UNCHANGED <<request_times, available_clients, held, as_pc, slept_at,
                   clock>>
    /\ AsyncFrame

\* time passes
AsyncTick ==
    /\ clock < MaxClock
    /\ clock' = clock + 1
    /\ UNCHANGED <<request_times, available_clients, held, as_pc, as_out,
                   slept_at, sent, as_hist>>
    /\ AsyncFrame

AsyncInit ==
    /\ request_times = <<>>
    /\ available_clients = [i \in 1..pool_size |-> i]
    /\ held = [c \in AsyncCallers |-> 0]
    /\ as_pc = [c \in AsyncCallers |-> "idle"]
    /\ as_out = [c \in AsyncCallers |-> "none"]
    /\ slept_at = [c \in AsyncCallers |-> 0]
    /\ clock = 0
    /\ sent = <<>>
    /\ as_hist = [c \in AsyncCallers |-> NoHistory]

AsyncNext ==
    \/ \E c \in AsyncCallers :
          \/ CallAsyncCheck(c)
          \/ CallAsyncRecheck(c)
          \/ AsyncCacheHit(c)
          \/ AsyncCacheMiss(c)
          \/ Acquire(c)
          \/ BlockReturns(c)
          \/ BlockRaises(c)
          \/ Release(c)
          \/ SyncCall(c)
    \/ AsyncTick

(***************************************************************************)
(* ReconciliationEngine: documents                                         *)
(*                                                                         *)
(* A document field {"value": v} is its value v.  Text is a string and a   *)
(* null text is None; prices and totals are integer cents, quantities are  *)
(* integers, a date is a day number, and a null number is NullValue.  An   *)
(* absent date is NoDate, the empty string of the source.                  *)
(***************************************************************************)

\* the largest number of contract terms of a contract of the model
MaxTerms == 2
\* the largest number of lines of an invoice of the model
MaxLines == 2
\* the largest number of reconcile() calls on one engine
MaxReconciles == 3

\* {"value": null} in a numeric field
NullValue == -1
\* '' in a date field
NoDate == 0

\* str.lower() on the texts of the model
lower(s) ==
    CASE s = "SRV-001" -> "srv-001"
      [] s = " SRV-001" -> " srv-001"
      [] s = "SRV-002" -> "srv-002"
      [] s = "Acme" -> "acme"
      [] s = "Acme Inc" -> "acme inc"
      [] s = "Acme_US" -> "acme_us"
      [] s = "Hour" -> "hour"
      [] OTHER -> s

\* str.strip() on the texts of the model
strip(s) ==
    CASE s = " SRV-001" -> "SRV-001"
      [] s = " srv-001" -> "srv-001"
      [] OTHER -> s

\* _clean_business_name on the lower-case vendor names of the model
clean_business_name(name) ==
    CASE name = "acme inc" -> "acme"
      [] OTHER -> name

\* the cosine similarity of two descriptions, in hundredths: the same words
\* give 1.0, descriptions with no word in common give 0.0, and a description
\* made of noise words only ("Monthly service fee") normalises to the empty
\* string, which gives 0.0
normalize_description(description) ==
    CASE description = "Cloud hosting" -> "cloud hosting"
      [] description = "cloud hosting services" -> "cloud hosting"
      [] description = "Monthly service fee" -> ""
      [] OTHER -> description

compute_description_similarity(desc1, desc2) ==
    LET desc1_norm == normalize_description(desc1)
        desc2_norm == normalize_description(desc2)
    IN  IF desc1_norm = "" \/ desc2_norm = "" THEN 0
        ELSE IF desc1_norm = desc2_norm THEN 100
        ELSE 0

\* a contract term and an invoice line
ContractTerm(item_code, item_desc, price) ==
    [item_code |-> item_code, item_desc |-> item_desc, price |-> price,
     unit |-> "hour", max_qty |-> NullValue,
     effective_start |-> NoDate, effective_end |-> NoDate]

InvoiceLine(item_code, item_desc, unit_price, line_total) ==
    [item_code |-> item_code, item_desc |-> item_desc,
     unit_price |-> unit_price, unit |-> "Hour", qty |-> 1,
     line_total |-> line_total,
     service_period_start |-> NoDate, service_period_end |-> NoDate]

Contract(vendor, start_date, end_date, terms) ==
    [vendor |-> vendor, start_date |-> start_date, end_date |-> end_date,
     cap_total |-> NullValue, terms |-> terms]

Invoice(vendor, invoice_no, invoice_date, lines) ==
    [vendor |-> vendor, invoice_no |-> invoice_no,
     invoice_date |-> invoice_date, lines |-> lines]

\* the sequences of length 1..n over a set
SeqsUpTo(S, n) == UNION {[1..k -> S] : k \in 1..n}

(***************************************************************************)
(* ReconciliationEngine: vendor and contract-date checks                   *)
(***************************************************************************)

\* _match_vendor raises AttributeError on a null vendor: None has no lower()
match_vendor_raises(contract, invoice) ==
    contract.vendor = None \/ invoice.vendor = None

\* _match_vendor with no database and an empty alias table
match_vendor(contract, invoice) ==
    LET contract_vendor == strip(lower(contract.vendor))
        invoice_vendor == strip(lower(invoice.vendor))
    IN  IF contract_vendor = "" \/ invoice_vendor = "" THEN FALSE
        ELSE IF contract_vendor = invoice_vendor THEN TRUE
        ELSE clean_business_name(contract_vendor)
                 = clean_business_name(invoice_vendor)

\* _is_contract_active
is_contract_active(contract, invoice) ==
    IF NoDate \in {invoice.invoice_date, contract.start_date,
                   contract.end_date}
    THEN TRUE
    ELSE /\ contract.start_date <= invoice.invoice_date
         /\ invoice.invoice_date <= contract.end_date

(***************************************************************************)
(* ReconciliationEngine: _match_lines                                      *)
(*                                                                         *)
(* Indices are the 0-based indices of the source; confidences are in       *)
(* hundredths.  best_match is NoMatch where the source has None.           *)
(***************************************************************************)

NoMatch == -1

NoBest ==
    [best_match |-> NoMatch, best_confidence |-> 0, best_method |-> None,
     raised |-> "none"]

Match(inv_idx, best) ==
    [invoice_line_index |-> inv_idx, contract_term_index |-> best.best_match,
     match_method |-> best.best_method, confidence |-> best.best_confidence]

\* Python's truth value of a number or None
truthy(v) == v # NullValue /\ v # 0

\* _check_unit_price_tolerance: 0.8 inside the 5% tolerance, otherwise 0.0;
\* every exception gives 0.0
check_unit_price_tolerance(invoice_line, contract_term) ==
    LET inv_price == invoice_line.unit_price
        cont_price == contract_term.price
    IN  IF invoice_line.unit = None \/ contract_term.unit = None THEN 0
        ELSE LET inv_unit == lower(invoice_line.unit)
                 cont_unit == lower(contract_term.unit)
                 price_diff == IF inv_price >= cont_price
                               THEN inv_price - cont_price
                               ELSE cont_price - inv_price
             IN  IF ~(truthy(inv_price) /\ truthy(cont_price)
                      /\ inv_unit # "" /\ cont_unit # "")
                 THEN 0
                 ELSE IF inv_unit # cont_unit THEN 0
                 ELSE IF price_diff * 100 <= 5 * cont_price THEN 80
                 ELSE 0

\* "if cont_idx in used_contract_indices: continue", without the test
is_used_never(cont_idx, used_contract_indices) == FALSE

\* "if cont_idx in used_contract_indices: continue"
is_used(cont_idx, used_contract_indices) ==
    cont_idx \in used_contract_indices

\* the loop over the contract terms for one invoice line, from cont_idx on
RECURSIVE term_loop(_, _, _, _, _)
term_loop(invoice_line, contract_terms, used_contract_indices, cont_idx, best) ==
    IF cont_idx >= Len(contract_terms) THEN best
    ELSE IF is_used(cont_idx, used_contract_indices)
    THEN term_loop(invoice_line, contract_terms, used_contract_indices,
                   cont_idx + 1, best)
    ELSE
      LET contract_term == contract_terms[cont_idx + 1] IN
      \* None has no strip()
      IF invoice_line.item_code = None \/ contract_term.item_code = None
      THEN [best EXCEPT !.raised = "AttributeError"]
      ELSE
        LET inv_code == strip(invoice_line.item_code)
            cont_code == strip(contract_term.item_code)
            inv_desc == invoice_line.item_desc
            cont_desc == contract_term.item_desc
            similarity == compute_description_similarity(inv_desc, cont_desc)
            after_desc ==
                IF /\ inv_desc \notin {None, ""}
                   /\ cont_desc \notin {None, ""}
                   /\ similarity > 80
                   /\ similarity > best.best_confidence
                THEN [best EXCEPT !.best_match = cont_idx,
                                  !.best_confidence = similarity,
                                  !.best_method = "description"]
                ELSE best
            unit_price_match ==
                check_unit_price_tolerance(invoice_line, contract_term)
            \* "not best_match" holds for None and for the index 0
            after_price ==
                IF /\ \/ after_desc.best_match \in {NoMatch, 0}
                      \/ after_desc.best_confidence < 70
                   /\ unit_price_match # 0
                   /\ unit_price_match > after_desc.best_confidence
                THEN [after_desc EXCEPT
                          !.best_match = cont_idx,
                          !.best_confidence = unit_price_match,
                          !.best_method = "unit_price_tolerance"]
                ELSE after_desc
        IN  IF /\ inv_code # "" /\ cont_code # ""
               /\ lower(inv_code) = lower(cont_code)
            THEN [best EXCEPT !.best_match = cont_idx,
                              !.best_confidence = 100,
                              !.best_method = "code"]
            ELSE term_loop(invoice_line, contract_terms,
                           used_contract_indices, cont_idx + 1, after_price)

\* the loop over the invoice lines, from inv_idx on
RECURSIVE line_loop(_, _, _, _, _)
line_loop(contract_terms, invoice_lines, inv_idx, matches, used_contract_indices) ==
    IF inv_idx >= Len(invoice_lines)
    THEN [matches |-> matches, raised |-> "none"]
    ELSE
      LET best == term_loop(invoice_lines[inv_idx + 1], contract_terms,
                            used_contract_indices, 0, NoBest)
      IN  IF best.raised # "none"
          THEN [matches |-> matches, raised |-> best.raised]
          ELSE IF best.best_match # NoMatch /\ best.best_confidence >= 60
          THEN line_loop(contract_terms, invoice_lines, inv_idx + 1,
                         Append(matches, Match(inv_idx, best)),
                         used_contract_indices \cup {best.best_match})
          ELSE line_loop(contract_terms, invoice_lines, inv_idx + 1,
                         matches, used_contract_indices)

\* _match_lines
match_lines(contract, invoice) ==
    line_loop(contract.terms, invoice.lines, 0, <<>>, {})

(***************************************************************************)
(* ReconciliationEngine: the rules of _validate_rules                      *)
(*                                                                         *)
(* A rule gives the flags it produces and the exception it raises, if any. *)
(* float(None) raises TypeError, which no rule catches.                    *)
(***************************************************************************)

NoServiceDates == "unset"

FlagEvidence(contract_price, invoice_price, delta, service_dates) ==
    [contract_price |-> contract_price, invoice_price |-> invoice_price,
     delta |-> delta, service_dates |-> service_dates]

\* FlagEvidence()
EmptyEvidence == FlagEvidence(NullValue, NullValue, NullValue, NoServiceDates)

Flag(type, severity, evidence) ==
    [type |-> type, severity |-> severity, evidence |-> evidence]

Rule(flags, raised) == [flags |-> flags, raised |-> raised]

\* "inv_price > cont_price * 1.01", with the bound included
exceeds_tolerance_inclusive(inv_price, cont_price) ==
    inv_price * 100 >= cont_price * 101

\* "inv_price > cont_price * 1.01" on prices in cents
exceeds_tolerance(inv_price, cont_price) ==
    inv_price * 100 > cont_price * 101

\* _check_overpay_per_unit, from the k-th match on
RECURSIVE overpay_loop(_, _, _, _, _)
overpay_loop(contract_terms, invoice_lines, matches, k, flags) ==
    IF k > Len(matches) THEN Rule(flags, "none")
    ELSE
      LET inv_price ==
              invoice_lines[matches[k].invoice_line_index + 1].unit_price
          cont_price ==
              contract_terms[matches[k].contract_term_index + 1].price
      IN  IF inv_price = NullValue \/ cont_price = NullValue
          THEN Rule(flags, "TypeError")
          ELSE IF exceeds_tolerance(inv_price, cont_price)
          THEN overpay_loop(contract_terms, invoice_lines, matches, k + 1,
                   Append(flags,
                       Flag("overpay_per_unit", "error",
                            FlagEvidence(cont_price, inv_price,
                                         inv_price - cont_price,
                                         NoServiceDates))))
          ELSE overpay_loop(contract_terms, invoice_lines, matches, k + 1,
                            flags)

check_overpay_per_unit(contract, invoice, matches) ==
    overpay_loop(contract.terms, invoice.lines, matches, 1, <<>>)

\* _check_quantity_variance, from the k-th match on
RECURSIVE quantity_loop(_, _, _, _, _)
quantity_loop(contract_terms, invoice_lines, matches, k, flags) ==
    IF k > Len(matches) THEN Rule(flags, "none")
    ELSE
      LET inv_qty == invoice_lines[matches[k].invoice_line_index + 1].qty
          max_qty == contract_terms[matches[k].contract_term_index + 1].max_qty
      IN  IF inv_qty = NullValue THEN Rule(flags, "TypeError")
          ELSE IF truthy(max_qty) /\ inv_qty > max_qty
          THEN quantity_loop(contract_terms, invoice_lines, matches, k + 1,
                   Append(flags,
                       Flag("quantity_variance", "warn", EmptyEvidence)))
          ELSE quantity_loop(contract_terms, invoice_lines, matches, k + 1,
                             flags)

check_quantity_variance(contract, invoice, matches) ==
    quantity_loop(contract.terms, invoice.lines, matches, 1, <<>>)

matched_line_indices(matches) ==
    {matches[k].invoice_line_index : k \in DOMAIN matches}

\* _check_out_of_scope, from the line of index idx on
RECURSIVE out_of_scope_loop(_, _, _, _)
out_of_scope_loop(invoice_lines, matches, idx, flags) ==
    IF idx >= Len(invoice_lines) THEN Rule(flags, "none")
    ELSE IF idx \notin matched_line_indices(matches)
    THEN out_of_scope_loop(invoice_lines, matches, idx + 1,
             Append(flags, Flag("out_of_scope", "error", EmptyEvidence)))
    ELSE out_of_scope_loop(invoice_lines, matches, idx + 1, flags)

check_out_of_scope(contract, invoice, matches) ==
    out_of_scope_loop(invoice.lines, matches, 0, <<>>)

\* the sum of the line totals; a null or zero total counts as 0
RECURSIVE invoice_total(_)
invoice_total(lines) ==
    IF lines = <<>> THEN 0
    ELSE (IF truthy(Head(lines).line_total) THEN Head(lines).line_total
          ELSE 0)
         + invoice_total(Tail(lines))

\* _check_cap_exceeded
check_cap_exceeded(contract, invoice) ==
    LET cap_total == contract.cap_total
        total == invoice_total(invoice.lines)
    IN  IF ~truthy(cap_total) THEN Rule(<<>>, "none")
        ELSE IF total > cap_total
        THEN Rule(<<Flag("cap_exceeded", "error",
                         FlagEvidence(cap_total, total, total - cap_total,
                                      NoServiceDates))>>, "none")
        ELSE Rule(<<>>, "none")

\* _check_price_escalation: no flag in either branch
check_price_escalation(contract, invoice, matches) == Rule(<<>>, "none")

\* _check_service_dates, from the k-th match on
RECURSIVE service_dates_loop(_, _, _, _, _)
service_dates_loop(contract_terms, invoice_lines, matches, k, flags) ==
    IF k > Len(matches) THEN Rule(flags, "none")
    ELSE
      LET inv_line == invoice_lines[matches[k].invoice_line_index + 1]
          cont_term == contract_terms[matches[k].contract_term_index + 1]
          inv_start == inv_line.service_period_start
          inv_end == inv_line.service_period_end
          cont_start == cont_term.effective_start
          cont_end == cont_term.effective_end
      IN  IF /\ NoDate \notin {inv_start, inv_end, cont_start, cont_end}
             /\ ~(/\ cont_start <= inv_start /\ inv_start <= cont_end
                  /\ cont_start <= inv_end /\ inv_end <= cont_end)
          THEN service_dates_loop(contract_terms, invoice_lines, matches,
                   k + 1,
                   Append(flags,
                       Flag("date_variance", "warn",
                            FlagEvidence(NullValue, NullValue, NullValue,
                                         "set"))))
          ELSE service_dates_loop(contract_terms, invoice_lines, matches,
                                  k + 1, flags)

check_service_dates(contract, invoice, matches) ==
    service_dates_loop(contract.terms, invoice.lines, matches, 1, <<>>)

\* f"{total_amount:.2f}" of an amount in cents
format_2f(cents) ==
    ToString(cents \div 100) \o "."
        \o ToString((cents % 100) \div 10) \o ToString(cents % 10)

\* f"{vendor}_{invoice_no}_{total_amount:.2f}"
invoice_key(invoice) ==
    invoice.vendor \o "_" \o invoice.invoice_no \o "_"
        \o format_2f(invoice_total(invoice.lines))

\* "for processed in self.processed_invoices: if processed == invoice_key"
is_processed(processed, key) == \E k \in DOMAIN processed : processed[k] = key

\* _check_duplicate_invoice: the flags
check_duplicate_invoice(invoice, processed) ==
    IF is_processed(processed, invoice_key(invoice))
    THEN Rule(<<Flag("duplicate_invoice", "error", EmptyEvidence)>>, "none")
    ELSE Rule(<<>>, "none")

\* a validation that stops at the first rule that produced an ERROR flag
then_rule_stops_at_error(before, rule) ==
    IF \/ before.raised # "none"
       \/ \E k \in DOMAIN before.flags : before.flags[k].severity = "error"
    THEN before
    ELSE Rule(before.flags \o rule.flags, rule.raised)

\* a rule after the rules before it: nothing runs after an exception
then_rule(before, rule) ==
    IF before.raised # "none" THEN before
    ELSE Rule(before.flags \o rule.flags, rule.raised)

\* _validate_rules without rule 7
rules_1_to_6(contract, invoice, matches) ==
    then_rule(then_rule(then_rule(then_rule(then_rule(
        check_overpay_per_unit(contract, invoice, matches),
        check_quantity_variance(contract, invoice, matches)),
        check_out_of_scope(contract, invoice, matches)),
        check_cap_exceeded(contract, invoice)),
        check_price_escalation(contract, invoice, matches)),
        check_service_dates(contract, invoice, matches))

\* _validate_rules
validate_rules(contract, invoice, matches, processed) ==
    then_rule(rules_1_to_6(contract, invoice, matches),
              check_duplicate_invoice(invoice, processed))

\* _generate_payment_preview: the subtotal of the expected items; a null
\* price raises inside the outer try and gives NextPaymentPreview()
RECURSIVE preview_subtotal(_, _, _)
preview_subtotal(contract_terms, matches, k) ==
    IF k > Len(matches) THEN 0
    ELSE contract_terms[matches[k].contract_term_index + 1].price
         + preview_subtotal(contract_terms, matches, k + 1)

generate_payment_preview(contract, invoice, matches) ==
    IF \E k \in DOMAIN matches :
           contract.terms[matches[k].contract_term_index + 1].price
               = NullValue
    THEN NullValue
    ELSE preview_subtotal(contract.terms, matches, 1)

(***************************************************************************)
(* ReconciliationEngine.reconcile                                          *)
(***************************************************************************)

ReconciliationResult(matches, flags, subtotal) ==
    [status |-> "returned", matches |-> matches, flags |-> flags,
     next_payment_preview |-> subtotal]

ReconcileRaises(error) ==
    [status |-> error, matches |-> <<>>, flags |-> <<>>,
     next_payment_preview |-> NullValue]

\* the value before the first reconcile()
NoResult ==
    [status |-> "none", matches |-> <<>>, flags |-> <<>>,
     next_payment_preview |-> NullValue]

\* what reconcile returns or raises
reconcile(contract, invoice, processed) ==
    IF match_vendor_raises(contract, invoice) THEN ReconcileRaises("AttributeError")
    ELSE IF ~match_vendor(contract, invoice)
    THEN ReconciliationResult(<<>>,
             <<Flag("out_of_scope", "error", EmptyEvidence)>>, NullValue)
    ELSE IF ~is_contract_active(contract, invoice)
    THEN ReconciliationResult(<<>>,
             <<Flag("date_variance", "error",
                    FlagEvidence(NullValue, NullValue, NullValue, "set"))>>,
             NullValue)
    ELSE
      LET matched == match_lines(contract, invoice) IN
      IF matched.raised # "none" THEN ReconcileRaises(matched.raised)
      ELSE
        LET rules == validate_rules(contract, invoice, matched.matches,
                                    processed)
        IN  IF rules.raised # "none" THEN ReconcileRaises(rules.raised)
            ELSE ReconciliationResult(matched.matches, rules.flags,
                     generate_payment_preview(contract, invoice,
                                              matched.matches))

\* rule 7 ran: "self.processed_invoices.append(invoice_key)"
reaches_rule_7(contract, invoice) ==
    /\ ~match_vendor_raises(contract, invoice)
    /\ match_vendor(contract, invoice)
    /\ is_contract_active(contract, invoice)
    /\ match_lines(contract, invoice).raised = "none"
    /\ rules_1_to_6(contract, invoice,
                    match_lines(contract, invoice).matches).raised = "none"

\* (vendor, invoice_no, total of the line totals)
Triple(invoice) ==
    <<invoice.vendor, invoice.invoice_no, invoice_total(invoice.lines)>>

\* reconcile(contract, invoice)
Reconcile(contract, invoice) ==
    /\ rc_contract' = contract
    /\ rc_invoice' = invoice
    /\ rc_result' = reconcile(contract, invoice, processed_invoices)
    /\ processed_invoices' =
           IF reaches_rule_7(contract, invoice)
           THEN Append(processed_invoices, invoice_key(invoice))
           ELSE processed_invoices
    /\ rc_prior' = (Triple(invoice) \in rc_passed)
    /\ rc_passed' =
           IF reaches_rule_7(contract, invoice)
           THEN rc_passed \cup {Triple(invoice)}
           ELSE rc_passed
    /\ reconciles' = reconciles + 1
    /\ UNCHANGED rc_workers
    /\ ReconFrame

(***************************************************************************)
(* ReconciliationEngine: one engine shared by the batch workers            *)
(*                                                                         *)
(* The worker threads of the batch processor call reconcile() of the one   *)
(* module-level engine.  A thread can be preempted between the loop over   *)
(* processed_invoices and the append; the engine has no lock.              *)
(***************************************************************************)

\* number of worker threads that call the engine
MaxEngineWorkers == 2
\* number of reconcile() calls the workers make
MaxSharedCalls == 4

EngineWorkers == 1..MaxEngineWorkers

\* a worker that is not inside reconcile() and has not called it yet
Away == [pc |-> "away", key |-> None, flags |-> <<>>]

\* the contract and the invoices of the reconciliation jobs: two invoice
\* numbers of one vendor
SharedContract ==
    Contract("Acme", NoDate, NoDate,
             <<ContractTerm("SRV-001", "Cloud hosting", 10000)>>)
SharedInvoices ==
    {Invoice("Acme", n, NoDate,
             <<InvoiceLine("SRV-001", "Cloud hosting", 10000, 10000)>>) :
         n \in {"INV_1", "INV_2"}}

\* reconcile() up to and including the loop of _check_duplicate_invoice
\* that compares the key with self.processed_invoices
SharedCheck(w, invoice) ==
    /\ rc_workers[w].pc # "checked"
    /\ reconciles < MaxSharedCalls
    /\ reaches_rule_7(SharedContract, invoice)
    /\ rc_workers' = [rc_workers EXCEPT ![w] =
           [pc |-> "checked", key |-> invoice_key(invoice),
            flags |-> check_duplicate_invoice(invoice,
                                              processed_invoices).flags]]
    /\ reconciles' = reconciles + 1
    /\ UNCHANGED <<processed_invoices, rc_contract, rc_invoice, rc_result,
                   rc_passed, rc_prior>>
    /\ ReconFrame

\* self.processed_invoices.append(invoice_key), and reconcile() returns
SharedRecord(w) ==
    /\ rc_workers[w].pc = "checked"
    /\ processed_invoices' = Append(processed_invoices, rc_workers[w].key)
    /\ rc_workers' = [rc_workers EXCEPT ![w].pc = "returned"]
    /\ UNCHANGED <<rc_contract, rc_invoice, rc_result, rc_passed, rc_prior,
                   reconciles>>
    /\ ReconFrame

SharedEngineNext ==
    \/ \E w \in EngineWorkers, invoice \in SharedInvoices :
           SharedCheck(w, invoice)
    \/ \E w \in EngineWorkers : SharedRecord(w)

(***************************************************************************)
(* ReconciliationEngine: the engines of the model                          *)
(***************************************************************************)

NoContract == Contract("", NoDate, NoDate, <<>>)
NoInvoice == Invoice("", "", NoDate, <<>>)

\* ReconciliationEngine.__init__, before any reconcile()
ReconInit ==
    /\ processed_invoices = <<>>
    /\ rc_contract = NoContract
    /\ rc_invoice = NoInvoice
    /\ rc_result = NoResult
    /\ rc_passed = {}
    /\ rc_prior = FALSE
    /\ reconciles = 0
    /\ rc_workers = [w \in EngineWorkers |-> Away]

\* a new engine and the documents of its one reconcile()
DrawnInit(contracts, invoices) ==
    /\ processed_invoices = <<>>
    /\ rc_contract \in contracts
    /\ rc_invoice \in invoices
    /\ rc_result = NoResult
    /\ rc_passed = {}
    /\ rc_prior = FALSE
    /\ reconciles = 0
    /\ rc_workers = [w \in EngineWorkers |-> Away]

\* reconcile() of the documents drawn
ReconcileDrawn ==
    /\ reconciles = 0
    /\ Reconcile(rc_contract, rc_invoice)

\* documents for line matching: same vendor, no dates, one or two terms and
\* lines over three item codes, two descriptions and two prices
MatchCodes == {"", "SRV-001", " srv-001"}
MatchDescs == {"Cloud hosting", "Consulting"}
MatchPrices == {10000, 20000}

MatchTerms ==
    {ContractTerm(c, d, p) : c \in MatchCodes, d \in MatchDescs,
                             p \in MatchPrices}
MatchLines ==
    {InvoiceLine(c, d, p, p) : c \in MatchCodes, d \in MatchDescs,
                               p \in MatchPrices}
MatchContracts ==
    {Contract("Acme Inc", NoDate, NoDate, terms) :
         terms \in SeqsUpTo(MatchTerms, MaxTerms)}
MatchInvoices ==
    {Invoice("Acme", "INV_1", NoDate, lines) :
         lines \in SeqsUpTo(MatchLines, MaxLines)}

\* documents for the overpay rule: prices around the 1% bound
OverpayPrices == {10000, 10100, 10101, 20000}
OverpayTerms ==
    {ContractTerm(c, "Cloud hosting", p) : c \in {"", "SRV-001"},
                                           p \in OverpayPrices}
OverpayLines ==
    {InvoiceLine(c, "cloud hosting services", p, p) :
         c \in {"", "SRV-001"}, p \in OverpayPrices}
OverpayContracts ==
    {Contract("Acme", NoDate, NoDate, terms) :
         terms \in SeqsUpTo(OverpayTerms, MaxTerms)}
OverpayInvoices ==
    {Invoice("Acme", "INV_1", NoDate, lines) :
         lines \in SeqsUpTo(OverpayLines, MaxLines)}

\* documents for a clean reconciliation: same vendor, a contract running over
\* days 1..2 with a cap of 3000.00, one or two terms and lines over two item
\* codes, two prices, quantities and maximum quantities of 1 and 2, and
\* effective ranges and service periods of day 1 or day 2
CleanCodes == {"SRV-001", "SRV-002"}
CleanPrices == {100000, 200000}
CleanQuantities == {1, 2}
CleanDays == {1, 2}
CleanTerms ==
    {[ContractTerm(c, "Cloud hosting", p) EXCEPT
          !.max_qty = q, !.effective_start = d, !.effective_end = d] :
         c \in CleanCodes, p \in CleanPrices, q \in CleanQuantities,
         d \in CleanDays}
CleanLines ==
    {[InvoiceLine(c, "Cloud hosting", p, p * q) EXCEPT
          !.qty = q, !.service_period_start = d, !.service_period_end = d] :
         c \in CleanCodes, p \in CleanPrices, q \in CleanQuantities,
         d \in CleanDays}
CleanContracts ==
    {[Contract("Acme", 1, 2, terms) EXCEPT !.cap_total = 300000] :
         terms \in SeqsUpTo(CleanTerms, MaxTerms)}
CleanInvoices ==
    {Invoice("Acme", "INV_1", d, lines) :
         d \in {2, 3}, lines \in SeqsUpTo(CleanLines, MaxLines)}

\* documents for an engine that reconciles several invoices: vendors and
\* invoice numbers with underscores, invoice dates inside and outside the
\* contract's dates, and null vendors, item codes and prices
ReconVendors == {"Acme", "Acme_US", None}
ReconContracts ==
    {Contract(v, 1, 2, <<ContractTerm("SRV-001", "Cloud hosting", p)>>) :
         v \in ReconVendors, p \in {10000, NullValue}}
ReconInvoices ==
    {Invoice(v, n, d, <<InvoiceLine(c, "Cloud hosting", p, 50000)>>) :
         v \in ReconVendors, n \in {"INV_1", "US_INV_1"}, d \in {1, 3},
         c \in {"SRV-001", None}, p \in {10000, NullValue}}

ReconNext ==
    \E contract \in ReconContracts, invoice \in ReconInvoices :
        /\ reconciles < MaxReconciles
        /\ Reconcile(contract, invoice)

\* documents for the rules: one contract term in force on day 1, with and
\* without a cap of 150.00; one or two invoice lines that carry the term's
\* item code or another item, at the contract's price or at twice the price,
\* with a service period on day 1 or on day 2
RuleTerm ==
    [ContractTerm("SRV-001", "Cloud hosting", 10000)
         EXCEPT !.effective_start = 1, !.effective_end = 1]
RuleLines ==
    {[InvoiceLine(item[1], item[2], p, p)
          EXCEPT !.service_period_start = d, !.service_period_end = d] :
         item \in {<<"SRV-001", "Cloud hosting">>, <<"OTHER", "Consulting">>},
         p \in {10000, 20000}, d \in {1, 2}}
RuleContracts ==
    {[Contract("Acme", NoDate, NoDate, <<RuleTerm>>) EXCEPT !.cap_total = c] :
         c \in {NullValue, 15000}}
RuleInvoices ==
    {Invoice("Acme", "INV_1", NoDate, lines) :
         lines \in SeqsUpTo(RuleLines, MaxLines)}

RulesNext ==
    \E contract \in RuleContracts, invoice \in RuleInvoices :
        /\ reconciles < MaxReconciles
        /\ Reconcile(contract, invoice)

\* every component but the reconciliation engine
OtherInit ==
    BatchInit /\ LLMInit /\ MemInit /\ MLCInit /\ AsyncInit /\ FaultInit

Init == OtherInit /\ ReconInit

\* the batch processor
Next == BatchNext

Spec == Init /\ [][Next]_vars

\* the extraction client
SpecLLM == Init /\ [][LLMNext]_vars

\* the extraction client with and without an API key
SpecNoKey == Init /\ [][NoKeyNext]_vars

\* call_async and the caches of the client
SpecCallAsync == Init /\ [][CallAsyncNext]_vars

\* the extraction client over the documents of the escalation check
SpecEscalation == Init /\ [][EscalationNext]_vars

\* the in-memory cache
SpecCache == Init /\ [][MemNext]_vars

\* the multi-layer cache, one caller
SpecMLC == Init /\ [][MLCNext]_vars

\* the multi-layer cache, concurrent callers
SpecShared == Init /\ [][SharedNext]_vars

\* the client's entry points, its rate limiter and its connection pool
SpecAsync == Init /\ [][AsyncNext]_vars

\* the memory cache with values of any size
SpecBounds == Init /\ [][BoundsNext]_vars

\* the multi-layer cache read and written by one caller
SpecReadPath == Init /\ [][ReadPathNext]_vars

\* the multi-layer cache over layers that fail
SpecFaults == Init /\ [][FaultNext]_vars

\* one engine reconciling several invoices
SpecRecon == Init /\ [][ReconNext]_vars

\* one engine shared by the worker threads
SpecSharedEngine == Init /\ [][SharedEngineNext]_vars

\* one engine, reconciling the documents for the rules
SpecRules == Init /\ [][RulesNext]_vars

\* one reconcile() of every contract and invoice of the matching documents
MatchInit == OtherInit /\ DrawnInit(MatchContracts, MatchInvoices)

SpecMatch == MatchInit /\ [][ReconcileDrawn]_vars

\* one reconcile() of every contract and invoice of the clean documents
CleanInit == OtherInit /\ DrawnInit(CleanContracts, CleanInvoices)

SpecClean == CleanInit /\ [][ReconcileDrawn]_vars

\* one reconcile() of every contract and invoice of the overpay documents
OverpayInit == OtherInit /\ DrawnInit(OverpayContracts, OverpayInvoices)

SpecOverpay == OverpayInit /\ [][ReconcileDrawn]_vars

(***************************************************************************)
(* The batch processor with handlers that return, started once and never   *)
(* stopped, under fair scheduling of its worker threads.  Every batch job  *)
(* depends on a job submitted before it.                                   *)
(***************************************************************************)

\* submit_batch with a dependency on a job that was submitted
SubmitDependent ==
    \E p \in Priorities, deps \in DependencyLists(NextJobId) :
        /\ deps \subseteq DOMAIN jobs
        /\ Enqueue(NextJobId, "reconcile", p, deps)

\* submit_job of a type with a registered processor
SubmitRegistered ==
    \E p \in Priorities : Enqueue(NextJobId, "reconcile", p, {})

\* start(), once
StartOnce == worker_threads = 0 /\ Start

LiveWorker(t) ==
    \/ LoopCheck(t)
    \/ Dequeue(t)
    \/ DequeueEmpty(t)
    \/ Requeue(t)
    \/ ProcessJob(t)
    \/ HandlerReturn(t)

LiveNext ==
    \/ SubmitRegistered
    \/ SubmitDependent
    \/ StartOnce
    \/ \E t \in Threads : LiveWorker(t)

LiveSpec ==
    /\ Init
    /\ [][LiveNext]_vars
    /\ WF_vars(StartOnce)
    /\ \A t \in Threads : WF_vars(LiveWorker(t))

(***************************************************************************)
(* The batch processor started once and then stopped, with worker threads  *)
(* that keep being scheduled.                                              *)
(***************************************************************************)

ShutdownNext ==
    \/ SubmitJob
    \/ SubmitBatch
    \/ StartOnce
    \/ Stop
    \/ \E t \in Threads : Worker(t)

SpecShutdown ==
    /\ Init
    /\ [][ShutdownNext]_vars
    /\ \A t \in Threads : WF_vars(Worker(t))

(***************************************************************************)
(* Properties of the batch processor                                       *)
(***************************************************************************)

IsCompleted(d) == d \in DOMAIN jobs /\ jobs[d].status = "completed"

InHandler(j) == \E t \in Threads : pc[t] = "handler" /\ hold[t] = j

\* C1: dependency gating.  A job that has a dependency which is not in
\* status completed is pending, its handler is not running and was never
\* invoked.
C1_DependencyGating ==
    \A j \in DOMAIN jobs :
        (\E d \in jobs[j].dependencies : ~IsCompleted(d)) =>
            /\ jobs[j].status = "pending"
            /\ ~InHandler(j)
            /\ invocations[j] = 0

\* C1 happens: the handler of a job with a dependency runs (the dependency
\* completed), while another job still waits for a dependency.
C1_Witness ==
    /\ \E j \in DOMAIN jobs : jobs[j].dependencies # {} /\ InHandler(j)
    /\ \E j \in DOMAIN jobs :
          /\ \E d \in jobs[j].dependencies : ~IsCompleted(d)
          /\ j \in active_jobs

\* the queue's documented order: priority descending, creation time ascending
RunsBefore(a, b) ==
    \/ jobs[a].priority > jobs[b].priority
    \/ jobs[a].priority = jobs[b].priority
       /\ jobs[a].created_at <= jobs[b].created_at

DequeueTakesFirst ==
    \A t \in Threads :
        (pc[t] = "dequeue" /\ pc'[t] = "check") =>
            \A k \in queue : RunsBefore(hold'[t], k)

IsPrefix(s, r) ==
    Len(s) <= Len(r) /\ \A i \in 1..Len(s) : s[i] = r[i]

ABCSubmitted ==
    /\ DOMAIN jobs = 1..3
    /\ jobs[1].priority = LOW
    /\ jobs[2].priority = HIGH
    /\ jobs[3].priority = HIGH

\* C2: batch ordering.  Every dequeue returns the job of the highest
\* priority among the queued jobs and, among those, the one created first;
\* and when one worker drains a queue in which A(low, t=1), B(high, t=2),
\* C(high, t=3) were enqueued before its first dequeue, the jobs are
\* dispatched in the order B, C, A.
C2_BatchOrdering ==
    /\ [][DequeueTakesFirst]_vars
    /\ [](ABCSubmitted /\ exec_order # Void => IsPrefix(exec_order, <<2, 3, 1>>))

\* C2 happens: the three jobs of the example were dispatched.
C2_Witness == ABCSubmitted /\ exec_order = <<2, 3, 1>>

\* C3: retry bound.  retry_count never exceeds max_retries and counts the
\* re-enqueues after a raise (one less than the invocations once the job is
\* being run or has ended); a job whose every attempt raised has ended after
\* max_retries + 1 invocations; a job that has ended is neither queued nor
\* held by a worker.
C3_RetryBound ==
    \A j \in DOMAIN jobs :
        /\ jobs[j].retry_count <= jobs[j].max_retries
        /\ jobs[j].job_type \in job_processors =>
              invocations[j] = jobs[j].retry_count
                  + (IF InHandler(j) \/ j \in completed_jobs THEN 1 ELSE 0)
        /\ j \in completed_jobs =>
              /\ j \notin queue
              /\ \A t \in Threads : hold[t] # j
              /\ last_outcome[j] = "raised"
                    /\ jobs[j].job_type \in job_processors
                 => invocations[j] = max_retries + 1

\* C3 happens: a job ended after its handler raised on each of four attempts.
C3_Witness ==
    \E j \in DOMAIN jobs :
        /\ j \in completed_jobs
        /\ last_outcome[j] = "raised"
        /\ invocations[j] = max_retries + 1
        /\ jobs[j].retry_count = max_retries

\* C4: terminal status reflects the handler's outcome.  A job that ended
\* completed has a last attempt that returned, and its result is recorded;
\* a job whose last attempt raised ended failed with the error recorded.
C4_TerminalStatus ==
    \A j \in completed_jobs :
        /\ jobs[j].status = "completed" =>
              last_outcome[j] = "returned" /\ jobs[j].result # None
        /\ last_outcome[j] = "raised" =>
              jobs[j].status = "failed" /\ jobs[j].error # None

\* C5: worker concurrency bound.  At most max_workers handlers are running.
C5_WorkerConcurrency ==
    Cardinality({t \in Threads : pc[t] = "handler"}) <= max_workers

\* C6: progress.  With handlers that return and fair scheduling, every
\* submitted job, whose dependencies are submitted jobs, completes.
C6_Progress ==
    \A j \in Jobs :
        (j \in DOMAIN jobs) ~> (j \in DOMAIN jobs /\ jobs[j].status = "completed")

(***************************************************************************)
(* Properties of the extraction client                                     *)
(***************************************************************************)

\* C7: extraction idempotence.  An extraction of a text whose earlier
\* extraction succeeded (with nothing cleared or expired from the caches in
\* between) returns that same dictionary with success=true and makes no
\* external request, and does not raise.
C7_ExtractionIdempotence ==
    llm_expect # None =>
        /\ llm_pc = "returned"
        /\ llm_success
        /\ llm_result = llm_expect
        /\ requests = <<>>

\* C7 happens: the repeated extraction returned the capable tier's cached
\* result, the cheap tier's cached result needing escalation.
C7_Witness ==
    /\ llm_pc = "returned"
    /\ llm_expect # None
    /\ cache[cache_key(small_model, llm_kind, llm_text)] # None
    /\ needs_escalation(cache[cache_key(small_model, llm_kind, llm_text)])
           = "yes"
    /\ llm_result = "invoice"

RequestsTo(m) == {i \in DOMAIN requests : requests[i].model = m}

\* C8: JSON repair.  A repair request directly follows a primary request
\* to the same model whose response did not parse; each model gets at most
\* one primary and one repair request per extraction, so at most 2 per call
\* and 4 per extraction; a repair that does not parse ends the call with
\* ({}, success=false).
C8_JsonRepair ==
    /\ Len(requests) <= 4
    /\ \A m \in Models : Cardinality(RequestsTo(m)) <= 2
    /\ \A i \in DOMAIN requests :
          /\ requests[i].purpose = "repair" =>
                /\ i > 1
                /\ requests[i - 1].purpose = "primary"
                /\ requests[i - 1].response = "unparseable"
                /\ requests[i - 1].model = requests[i].model
          /\ requests[i].purpose = "primary" /\ i > 1 =>
                requests[i - 1].model # requests[i].model
          /\ requests[i].response = "pending" => i = Len(requests)
    /\ llm_pc = "returned" /\ requests # <<>>
          /\ requests[Len(requests)].purpose = "repair"
          /\ requests[Len(requests)].response = "unparseable"
       => llm_result = EmptyDict /\ ~llm_success

\* C8 happens: both tiers needed a repair, and the last repair did not parse.
C8_Witness ==
    /\ llm_pc = "returned"
    /\ Len(requests) = 4
    /\ requests[4].purpose = "repair"
    /\ requests[4].response = "unparseable"

\* C9: extraction failures are values.  extract_contract and extract_invoice
\* never raise, and a failure is returned as ({}, success=false).
C9_FailuresAreValues ==
    /\ llm_pc # "raised"
    /\ llm_pc = "returned" /\ ~llm_success => llm_result = EmptyDict

(***************************************************************************)
(* Properties of the in-memory cache                                       *)
(***************************************************************************)

Present(d) == {k \in CacheKeys : d[k].present}

\* the keys a step removes from the cache
Evicted == Present(data) \ Present(data')

\* C10: LRU eviction.  Each entry a set evicts was accessed (set or read by
\* get) no later than each entry the set leaves in place; and a set of a new
\* key that finds max_size entries evicts at least one.
C10_LruEviction ==
    [][/\ evict_log' # <<>> /\ data' # data =>
            /\ \A i \in DOMAIN evict_log' : \A k \in Present(data) :
                  data'[k] = data[k] =>
                      evict_log'[i].last_accessed <= data[k].last_accessed
            /\ \A e \in Evicted :
                  \E i \in DOMAIN evict_log' : evict_log'[i].key = e
       /\ \A key \in Present(data') \ Present(data) :
            Cardinality(Present(data)) = max_size => Evicted # {}
      ]_vars

\* C10 happens: a set evicted an entry while an entry created before it,
\* but read by get after it, stays.
C10_Witness ==
    /\ evict_log # <<>>
    /\ \E k \in Present(data) :
          /\ data[k].created_at < evict_log[1].created_at
          /\ data[k].last_accessed > evict_log[1].last_accessed

(***************************************************************************)
(* Properties of the multi-layer cache                                     *)
(***************************************************************************)

\* C11: TTL expiry.  A get of a key that starts later than t0 + T, where the
\* key's last set (ttl T) returned at t0, is a miss; and a get of a key whose
\* last set had ttl None returns the value set.
C11_TtlExpiry ==
    \A t \in Callers :
        ml_get[t].done =>
            /\ ml_get[t].must_miss => ml_get[t].value = None
            /\ ml_get[t].must_hit # "any" =>
                  ml_get[t].value = ml_get[t].must_hit

\* C12: per-key linearizability.  A get that no set or delete of its key
\* overlaps returns what the last completed set or delete of the key left:
\* the value set, or nothing after a delete.
C12_Linearizable ==
    \A t \in Callers :
        ml_get[t].done /\ ml_get[t].expect # "any" =>
            ml_get[t].value = ml_get[t].expect

(***************************************************************************)
(* Properties of the rate limiter and of the connection pool               *)
(***************************************************************************)

\* the external requests made in the window that starts at w
SentInWindow(w) ==
    {i \in DOMAIN sent : w <= sent[i] /\ sent[i] < w + rate_limit_window}

\* C13: rate ceiling.  Every window of rate_limit_window seconds holds at
\* most rate_limit_requests external requests, whatever the entry point.
C13_RateCeiling ==
    \A w \in 0..MaxClock : Cardinality(SentInWindow(w)) <= rate_limit_requests

Holders == {c \in AsyncCallers : held[c] # 0}

AvailableSet == {available_clients[i] : i \in DOMAIN available_clients}

\* C14: connection pool.  The clients held and the clients available are
\* exactly the pool's clients, none twice in the list, none both held and
\* available, none held by two callers; at most pool_size callers hold one;
\* and a caller outside the scoped block holds none.
C14_ConnectionPool ==
    /\ \A i, j \in DOMAIN available_clients :
          i # j => available_clients[i] # available_clients[j]
    /\ \A c, d \in Holders : c # d => held[c] # held[d]
    /\ AvailableSet \cap {held[c] : c \in Holders} = {}
    /\ AvailableSet \cup {held[c] : c \in Holders} = clients
    /\ Cardinality(Holders) <= pool_size
    /\ \A c \in AsyncCallers :
          as_pc[c] \notin {"holding", "finally"} => held[c] = 0

\* C14 happens: a caller whose block was left by an exception has given its
\* client back, and every client of the pool is held again by other callers.
C14_Witness ==
    \E c \in AsyncCallers :
        /\ as_out[c] = "exception" /\ as_pc[c] = "idle"
        /\ Cardinality(Holders) = pool_size

(***************************************************************************)
(* Properties of the reconciliation engine                                 *)
(***************************************************************************)

ReconcileReturned == rc_result.status = "returned"

\* C15: one-to-one matching.  In every result no two Matches share a
\* contract_term_index and no two share an invoice_line_index.
C15_OneToOne ==
    ReconcileReturned =>
        \A k, l \in DOMAIN rc_result.matches :
            k # l =>
                /\ rc_result.matches[k].contract_term_index
                       # rc_result.matches[l].contract_term_index
                /\ rc_result.matches[k].invoice_line_index
                       # rc_result.matches[l].invoice_line_index

\* C15 happens: two identical contract terms and two invoice lines with the
\* same item code, and both lines are matched.
C15_Witness ==
    /\ ReconcileReturned
    /\ Len(rc_contract.terms) = 2
    /\ rc_contract.terms[1] = rc_contract.terms[2]
    /\ Len(rc_invoice.lines) = 2
    /\ rc_invoice.lines[1].item_code = "SRV-001"
    /\ rc_invoice.lines[2].item_code = "SRV-001"
    /\ Len(rc_result.matches) = 2

\* the invoice line of index i and the contract term of index j carry the
\* same non-empty item code, up to case, and no other line carries it
SameCode(i, j) ==
    LET code == rc_invoice.lines[i + 1].item_code IN
    /\ code # ""
    /\ lower(code) = lower(rc_contract.terms[j + 1].item_code)
    /\ \A o \in DOMAIN rc_invoice.lines :
           o # i + 1 => lower(rc_invoice.lines[o].item_code) # lower(code)

\* C17: exact-code match.  An invoice line whose item code is the code of a
\* contract term, and of no other invoice line, is matched to a term of that
\* code with method code and confidence 1.0.
C17_ExactCodeMatch ==
    ReconcileReturned =>
        \A i \in 0..(Len(rc_invoice.lines) - 1),
           j \in 0..(Len(rc_contract.terms) - 1) :
            SameCode(i, j) =>
                \E k \in DOMAIN rc_result.matches :
                    /\ rc_result.matches[k].invoice_line_index = i
                    /\ SameCode(i, rc_result.matches[k].contract_term_index)
                    /\ rc_result.matches[k].match_method = "code"
                    /\ rc_result.matches[k].confidence = 100

\* the prices of the invoice line and of the contract term of a Match
InvoicePrice(m) == rc_invoice.lines[m.invoice_line_index + 1].unit_price
ContractPrice(m) == rc_contract.terms[m.contract_term_index + 1].price

\* the invoice price is more than 1% above the contract price
OverOnePercent(m) == (InvoicePrice(m) - ContractPrice(m)) * 100 > ContractPrice(m)

OverpayFlags ==
    {k \in DOMAIN rc_result.flags : rc_result.flags[k].type = "overpay_per_unit"}

\* the overpay flag of a Match: severity ERROR, both prices and their delta
OverpayFlagOf(m) ==
    Flag("overpay_per_unit", "error",
         FlagEvidence(ContractPrice(m), InvoicePrice(m),
                      InvoicePrice(m) - ContractPrice(m), NoServiceDates))

\* C18: overpay boundary.  A matched line has an overpay_per_unit ERROR flag
\* if and only if its unit price is more than 1% above the contract price,
\* and the flag's delta is the invoice price minus the contract price: each
\* such Match has its flag, each overpay flag is the flag of such a Match,
\* and there are as many flags as such Matches.
C18_OverpayBoundary ==
    ReconcileReturned =>
        LET over == {k \in DOMAIN rc_result.matches :
                         OverOnePercent(rc_result.matches[k])}
        IN  /\ \A k \in over :
                   \E f \in OverpayFlags :
                       rc_result.flags[f] = OverpayFlagOf(rc_result.matches[k])
            /\ \A f \in OverpayFlags :
                   \E k \in over :
                       rc_result.flags[f] = OverpayFlagOf(rc_result.matches[k])
            /\ Cardinality(OverpayFlags) = Cardinality(over)

\* C18 happens: two lines matched to terms of 100.00, one at 101.00 and one
\* at 101.01, and the only overpay flag has delta 1.01.
C18_Witness ==
    /\ ReconcileReturned
    /\ Len(rc_result.matches) = 2
    /\ \A k \in 1..2 : ContractPrice(rc_result.matches[k]) = 10000
    /\ InvoicePrice(rc_result.matches[1]) = 10100
    /\ InvoicePrice(rc_result.matches[2]) = 10101
    /\ Cardinality(OverpayFlags) = 1
    /\ \A f \in OverpayFlags : rc_result.flags[f].evidence.delta = 101

\* the last reconcile() passed the vendor check and the contract-date check
PassedChecks ==
    /\ ~match_vendor_raises(rc_contract, rc_invoice)
    /\ match_vendor(rc_contract, rc_invoice)
    /\ is_contract_active(rc_contract, rc_invoice)

DuplicateFlags ==
    {k \in DOMAIN rc_result.flags : rc_result.flags[k].type = "duplicate_invoice"}

\* C16: duplicate detection.  A reconcile that passes the vendor and date
\* checks yields no duplicate_invoice flag when no earlier reconcile on the
\* engine had the invoice's (vendor, invoice_no, total), and exactly one
\* duplicate_invoice ERROR flag when one had.
C16_DuplicateDetection ==
    ReconcileReturned /\ PassedChecks =>
        IF rc_prior
        THEN /\ Cardinality(DuplicateFlags) = 1
             /\ \A k \in DuplicateFlags : rc_result.flags[k].severity = "error"
        ELSE DuplicateFlags = {}

\* C19: reconciliation always completes.  reconcile returns a result and
\* never raises, null vendors, item codes and prices included.
C19_AlwaysCompletes == rc_result.status \in {"none", "returned"}

(***************************************************************************)
(* Properties of the batch processor's shutdown                            *)
(***************************************************************************)

\* stop() has been called on a processor that was started
Stopped == ~running /\ worker_threads > 0

IsPending(j) == j \in DOMAIN jobs => jobs[j].status = "pending"

\* C20: shutdown.  A job that is in the queue once stop() has been called,
\* because it was waiting there or was submitted afterwards, is never passed
\* to a handler and remains pending.
C20_Shutdown ==
    \A j \in Jobs :
        [](Stopped /\ j \in queue
              => [](~InHandler(j) /\ IsPending(j)))

(***************************************************************************)
(* Properties of the job status query                                      *)
(***************************************************************************)

\* C21: job status query.  get_job_status returns a status record for every
\* job that was submitted, from its submission on.
C21_JobStatusQuery ==
    \A j \in DOMAIN jobs : get_job_status(j) # None

(***************************************************************************)
(* Properties of the multi-layer cache over failing layers                 *)
(***************************************************************************)

\* C22: cache failures degrade to a miss.  An operation that met a storage
\* or serialization error does not raise: a get returns a miss, a set and a
\* delete return false.
C22_FailuresDegrade ==
    ml_out.fault # "none" =>
        /\ ml_out.result # "raised"
        /\ ml_out.op = "get" => ml_out.result = "miss"
        /\ ml_out.op \in {"set", "delete"} => ml_out.result = "false"

(***************************************************************************)
(* Properties of a clean reconciliation                                    *)
(***************************************************************************)

\* the line carries the item code, the unit price and a service period
\* inside the effective range of the term, and a quantity within max_qty
Carries(line, term) ==
    /\ line.item_code = term.item_code
    /\ line.unit_price = term.price
    /\ term.effective_start <= line.service_period_start
    /\ line.service_period_start <= line.service_period_end
    /\ line.service_period_end <= term.effective_end
    /\ line.qty <= term.max_qty

\* every line carries the data of a term of its own, the invoice is dated
\* inside the contract's dates, from the same vendor, and under the cap
IsClean(contract, invoice) ==
    /\ invoice.vendor = contract.vendor
    /\ contract.start_date <= invoice.invoice_date
    /\ invoice.invoice_date <= contract.end_date
    /\ invoice_total(invoice.lines) < contract.cap_total
    /\ \E f \in [DOMAIN invoice.lines -> DOMAIN contract.terms] :
           /\ \A i, j \in DOMAIN invoice.lines : f[i] = f[j] => i = j
           /\ \A i \in DOMAIN invoice.lines :
                  Carries(invoice.lines[i], contract.terms[f[i]])

\* one Match per line, each by item code with confidence 1.0
OneCodeMatchPerLine ==
    /\ Len(rc_result.matches) = Len(rc_invoice.lines)
    /\ \A i \in DOMAIN rc_invoice.lines :
           \E k \in DOMAIN rc_result.matches :
               /\ rc_result.matches[k].invoice_line_index = i - 1
               /\ rc_result.matches[k].match_method = "code"
               /\ rc_result.matches[k].confidence = 100

\* C23: clean reconciliation.  A clean invoice reconciles on a new engine to
\* exactly one Match per line, by code with confidence 1.0, and to no flag.
C23_CleanReconciliation ==
    reconciles = 1 /\ IsClean(rc_contract, rc_invoice) =>
        /\ rc_result.status = "returned"
        /\ OneCodeMatchPerLine
        /\ rc_result.flags = <<>>

\* at least one of contract_price, invoice_price, delta or a service date is
\* set; clause_reference is '' in every FlagEvidence the engine builds
IsPopulated(evidence) ==
    \/ evidence.contract_price # NullValue
    \/ evidence.invoice_price # NullValue
    \/ evidence.delta # NullValue
    \/ evidence.service_dates # NoServiceDates

\* C24: flags carry evidence.  Every Flag of every ReconciliationResult has
\* a populated evidence record.
C24_FlagsCarryEvidence ==
    \A k \in DOMAIN rc_result.flags : IsPopulated(rc_result.flags[k].evidence)

(***************************************************************************)
(* Properties of the escalation to the large model                         *)
(***************************************************************************)

\* the result is a document of the extraction's kind
IsOfKind(kind, result) ==
    ("invoice_no" \in Content(result).has) <=> (kind = "invoice")

\* |qty x unit_price - line_total| > 0.01, in cents
OffByMoreThanACent(line) ==
    Abs(line.qty.value * line.unit_price.value - line.line_total.value) > 1

\* a required field with confidence < 0.7, or a line whose total is off
EscalationCondition(kind, result) ==
    LET r == Content(result)
        required == IF kind = "invoice" THEN {"vendor", "invoice_no"}
                    ELSE {"vendor", "service_category"}
    IN  \/ \E f \in required : f \in r.has /\ r[f] < ConfidenceThreshold
        \/ \E i \in DOMAIN r.lines : OffByMoreThanACent(r.lines[i])

\* C25: escalation condition.  After a successful call of the small model
\* the large model is called once if the result has a required field with
\* confidence < 0.7 or a line with |qty x unit_price - line_total| > 0.01,
\* and is not called otherwise.
C25_EscalationCondition ==
    tiers.cheap # None /\ IsOfKind(llm_kind, tiers.cheap) =>
        tiers.large = IF EscalationCondition(llm_kind, tiers.cheap)
                      THEN 1 ELSE 0

\* C26: cache hit short-circuits the pipeline.  When the small model's
\* result comes from the cache, the extraction returns that value, makes no
\* external request and does not escalate.
C26_CacheHitShortCircuits ==
    tiers.hit =>
        /\ requests = <<>>
        /\ tiers.large = 0
        /\ llm_pc = "returned" /\ llm_success /\ llm_result = tiers.cheap

(***************************************************************************)
(* Properties of call_async and the caches                                 *)
(***************************************************************************)

\* a dictionary parsed from JSON
IsParsedJson(value) == value \in ResponseTexts \ {"unparseable"}

\* C27: success flag soundness.  call_async returns success=true only with
\* a dictionary parsed from a response that is valid JSON, and success=false
\* only with the empty dictionary.
C27_SuccessFlagSound ==
    ad_out.source # "none" =>
        /\ ad_out.success =>
               /\ IsParsedJson(ad_out.value)
               /\ ad_out.response # "unparseable"
        /\ ~ad_out.success => ad_out.value = EmptyDict

\* C28: only successful results are cached.  A call_async that returns
\* success=false, or that receives a response that is no JSON, writes no
\* cache.
C28_OnlySuccessCached ==
    ~ad_out.success \/ ad_out.response = "unparseable" => ad_out.wrote = {}

\* C29: call_async cache hits return the original result.  A value served
\* from the cache equals the value the call_async that was answered by the
\* model service returned for the same key.
C29_HitReturnsOriginal ==
    ad_out.source = "cache" /\ ad_first[ad_out.key] # None =>
        ad_out.value = ad_first[ad_out.key]

\* the caller's call_async was rejected by the rate limiter
Rejected(c) == as_out[c] = "rate_limited"

\* C30: rate-limit rejection.  A call_async that found the window full
\* waits once and checks again; rejected, it has counted one error, made no
\* external request and cached nothing.  No call_async makes an external
\* request or writes the cache without a rate check that passed, and none
\* waits twice.
C30_RateLimitRejection ==
    \A c \in AsyncCallers :
        /\ Rejected(c) =>
               /\ as_hist[c].errors = 1
               /\ as_hist[c].waits = 1
               /\ as_hist[c].sent = 0
               /\ as_hist[c].cached = 0
        /\ as_pc[c] = "sleep" => as_hist[c].waits = 1 /\ ~as_hist[c].passed
        /\ as_hist[c].sent > 0 \/ as_hist[c].cached > 0 => as_hist[c].passed
        /\ as_hist[c].waits <= 1

\* C30 happens: a call_async is rejected after its wait while another one,
\* which passed the rate check, has made its external request.
C30_Witness ==
    \E c, d \in AsyncCallers :
        /\ Rejected(c)
        /\ as_hist[c].errors = 1
        /\ as_hist[d].passed
        /\ as_hist[d].sent = 1

\* C31: cached requests are independent of the rate limiter.  A call_async
\* answered from the cache has added no timestamp to the window.
C31_CachedBypassLimiter ==
    \A c \in AsyncCallers : as_out[c] = "hit" => ~as_hist[c].passed

(***************************************************************************)
(* Properties of the caches, continued                                     *)
(***************************************************************************)

\* C32: L1 bounds.  The memory cache holds at most max_size entries and its
\* tracked byte total is at most max_memory_bytes.
C32_L1Bounds ==
    /\ Len(order) <= max_size
    /\ current_memory <= max_memory_bytes

\* the set was made at most ttl seconds before the get
\* C33: two-layer read path.  Before expiry a get returns the value of the
\* last set of its key when that set persisted it; a get served from L2
\* leaves the value in L1; a set with persist=false leaves L2 unchanged, and
\* a get after it is a miss once the L1 copy is gone.
C33_TwoLayerReadPath ==
    /\ rp_get.value # None /\ rp_get.persist /\ rp_get.before_expiry
           => rp_get.result = rp_get.value
    /\ rp_get.source = "l2" => rp_get.l1_after
    /\ \A k \in CacheKeys :
           rp_last[k].value # None /\ ~rp_last[k].persist
               => rp_last[k].l2_unchanged
    /\ rp_get.value # None /\ ~rp_get.persist
       /\ rp_get.source # "l1"
           => rp_get.result = "miss"


(***************************************************************************)
(* Properties of the batch processor, continued                            *)
(***************************************************************************)

Terminal(j) == jobs[j].status \in {"completed", "failed"}

\* C34: terminal states are absorbing.  Once a job is completed or failed its
\* status, result and error never change, it is never put in the queue again
\* and its handler is never invoked again; no job id is in the active map and
\* in the completed map at once.
C34_TerminalAbsorbing ==
    /\ [](active_jobs \cap completed_jobs = {})
    /\ [][\A j \in DOMAIN jobs :
              Terminal(j) =>
                  /\ jobs'[j].status = jobs[j].status
                  /\ jobs'[j].result = jobs[j].result
                  /\ jobs'[j].error = jobs[j].error
                  /\ j \notin queue'
                  /\ invocations'[j] = invocations[j]
                  /\ \A t \in Threads : hold'[t] # j]_vars

\* a job has failed, another has completed, and a worker runs the handler
\* of a third
C34_Witness ==
    /\ \E j \in DOMAIN jobs : jobs[j].status = "failed" /\ j \in completed_jobs
    /\ \E j \in DOMAIN jobs : jobs[j].status = "completed"
                              /\ j \in completed_jobs
    /\ \E t \in Threads : pc[t] = "handler"


\* job j declares a dependency on a job that ended failed or on an id that
\* is never submitted
Unsatisfiable(j) ==
    /\ j \in DOMAIN jobs
    /\ \E dep_id \in jobs[j].dependencies :
           \/ dep_id \notin Jobs
           \/ dep_id \in DOMAIN jobs /\ jobs[dep_id].status = "failed"

\* such a job is never dispatched to its handler and stays pending
NeverDispatched ==
    \A j \in Jobs :
        Unsatisfiable(j) => invocations[j] = 0 /\ jobs[j].status = "pending"

\* C35: unsatisfiable dependency.  A job that depends on a failed job or on
\* an id never submitted is never dispatched and stays pending, and while the
\* processor runs a worker takes it from the queue again and again.
C35_UnsatisfiableDependency ==
    /\ []NeverDispatched
    /\ \A j \in Jobs :
           <>[](Unsatisfiable(j) /\ running)
               => []<>(\E t \in Threads : hold[t] = j)


\* the jobs the worker threads hold
Held == {hold[t] : t \in Threads} \ {0}

\* C40: active map content.  active_jobs holds exactly the jobs a worker
\* holds between dequeue and completion or re-enqueue, never a job that is
\* also waiting in the queue, and never more than max_workers jobs.
C40_ActiveMapContent ==
    /\ active_jobs = Held
    /\ active_jobs \cap queue = {}
    /\ Cardinality(active_jobs) <= max_workers


(***************************************************************************)
(* Properties of the reconciliation engine, continued                      *)
(***************************************************************************)

\* C36: the duplicate key is always recorded.  After every reconcile call
\* that returned a result, whatever the result (a duplicate found, a vendor
\* mismatch, an inactive contract), the composite key of its invoice is in
\* processed_invoices.
C36_KeyAlwaysRecorded ==
    rc_result.status = "returned"
        => is_processed(processed_invoices, invoice_key(rc_invoice))


\* the last reconcile() reached _validate_rules and returned its result
ValidatedResult ==
    /\ ReconcileReturned
    /\ PassedChecks
    /\ match_lines(rc_contract, rc_invoice).raised = "none"

FlagsOfType(type) ==
    {k \in DOMAIN rc_result.flags : rc_result.flags[k].type = type}

MatchesOfLine(idx) ==
    {k \in DOMAIN rc_result.matches :
         rc_result.matches[k].invoice_line_index = idx}

\* processed_invoices as the last reconcile() found it
ProcessedBefore == SubSeq(processed_invoices, 1, Len(processed_invoices) - 1)

\* C38: every invoice line is accounted for.  In a result of rule validation
\* each invoice line is the invoice_line_index of at most one Match, there is
\* one out_of_scope flag per line that has none, so that matches plus
\* out_of_scope flags are the number of lines, and the flags are those of
\* all seven rules, whether or not an earlier rule produced an ERROR flag.
C38_EveryLineAccounted ==
    ValidatedResult =>
        LET lines == rc_invoice.lines
            matches == rc_result.matches
            unmatched == {idx \in 0..(Len(lines) - 1) : MatchesOfLine(idx) = {}}
        IN  /\ \A idx \in 0..(Len(lines) - 1) :
                   Cardinality(MatchesOfLine(idx)) <= 1
            /\ Cardinality(FlagsOfType("out_of_scope")) = Cardinality(unmatched)
            /\ \A k \in FlagsOfType("out_of_scope") :
                   rc_result.flags[k].severity = "error"
            /\ Len(matches) + Cardinality(FlagsOfType("out_of_scope"))
                   = Len(lines)
            /\ rc_result.flags =
                   check_overpay_per_unit(rc_contract, rc_invoice, matches).flags
                   \o check_quantity_variance(rc_contract, rc_invoice,
                                              matches).flags
                   \o check_out_of_scope(rc_contract, rc_invoice, matches).flags
                   \o check_cap_exceeded(rc_contract, rc_invoice).flags
                   \o check_price_escalation(rc_contract, rc_invoice,
                                             matches).flags
                   \o check_service_dates(rc_contract, rc_invoice, matches).flags
                   \o check_duplicate_invoice(rc_invoice, ProcessedBefore).flags

\* a result with an overpay ERROR flag of the first rule, and after it an
\* out_of_scope, a cap_exceeded, a date_variance and a duplicate_invoice flag
C38_Witness ==
    /\ ValidatedResult
    /\ Len(rc_invoice.lines) = 2
    /\ Len(rc_result.matches) = 1
    /\ \E k \in FlagsOfType("overpay_per_unit") :
           /\ rc_result.flags[k].severity = "error"
           /\ \A type \in {"out_of_scope", "cap_exceeded", "date_variance",
                           "duplicate_invoice"} :
                  \E l \in FlagsOfType(type) : l > k


(***************************************************************************)
(* Properties of the extraction client, continued                          *)
(***************************************************************************)

\* C39: missing API key.  On a client with no API key an extract_contract
\* does not return success=true, sends no external request and takes nothing
\* from a cache: it raises (the ValueError of call()) or returns
\* success=false.
C39_MissingApiKey ==
    ~client /\ llm_kind = "contract" /\ llm_pc # "idle" =>
        /\ \/ llm_pc = "raised"
           \/ llm_pc = "returned" /\ ~llm_success
        /\ ~llm_success
        /\ requests = <<>>
        /\ ~tiers.hit
        /\ tiers.cheap = None

\* extract_contract raised on a client with no API key while a cache holds
\* the small model's answer for the same text
C39_Witness ==
    /\ ~client
    /\ llm_kind = "contract"
    /\ llm_pc = "raised"
    /\ CacheHit(cache_key(small_model, "contract", llm_text), cache, db_cache)


\* the number of entries of processed_invoices that are the key
Recorded(key) ==
    Cardinality({k \in DOMAIN processed_invoices : processed_invoices[k] = key})

HasDuplicateFlag(w) ==
    \E k \in DOMAIN rc_workers[w].flags :
        rc_workers[w].flags[k].type = "duplicate_invoice"

\* C37: duplicate detection under concurrency.  When two workers have
\* reconciled the same invoice on the shared engine, and theirs are the only
\* two reconciles of it, exactly one of the two results has the
\* duplicate_invoice flag.
C37_ConcurrentDuplicates ==
    \A w1, w2 \in EngineWorkers :
        /\ w1 # w2
        /\ rc_workers[w1].pc = "returned"
        /\ rc_workers[w2].pc = "returned"
        /\ rc_workers[w1].key = rc_workers[w2].key
        /\ Recorded(rc_workers[w1].key) = 2
        => (HasDuplicateFlag(w1) <=> ~HasDuplicateFlag(w2))

====
